---- MODULE Spec2Model ----
(***************************************************************************)
(* A model of the SermonAudio retrieval engine:                            *)
(*   - identifier enumeration (sa_speaker.py / sa_broadcaster.py),         *)
(*   - the download engines (sa_speaker.py / sa_broadcaster.py bulk        *)
(*     engine, sermonaudio.py single-item engine used by sa_series.py),    *)
(*   - credential handling (sa_auth.py and the ensure_api_key callers),    *)
(*   - endpoint discovery and identifier extraction from response bodies,  *)
(*   - the file name sanitizers,                                           *)
(*   - the tag-based rename of sermonaudio.py,                             *)
(*   - display-name and title resolution from the scraped pages,           *)
(*   - the choice of a series job's list (sa_series.py),                   *)
(*   - two GUI job threads that reach the same destination path, and two   *)
(*     that reach ensure_api_key of the same module,                       *)
(*   - the enumeration against a consistent server,                        *)
(*   - the module sessions of the GUI process across a forced refresh,     *)
(*   - a bulk job over titled items.                                       *)
(* Each subsystem has its own specification (SpecEnum, SpecJob, SpecAuth,  *)
(* SpecDiscover, SpecName, SpecRename, SpecMeta, SpecSeries, SpecRace,     *)
(* SpecKey, SpecFull, SpecRefresh, SpecTitles) over its own variables; the *)
(* other variables stay at their idle values.                              *)
(***************************************************************************)
EXTENDS Integers, Sequences, FiniteSets, TLC

(***************************************************************************)
(* Bounds of the model.                                                    *)
(***************************************************************************)
\* identifiers are 1..MaxId
MaxId == 3
\* page_size argument of the enumeration ranges over 1..MaxPageSize
MaxPageSize == 2
\* max_pages argument of the enumeration ranges over 1..MaxPages
MaxPages == 3
\* an HTML listing page holds at most MaxHtmlRefs sermon references
MaxHtmlRefs == 2
\* a job lists the items 1..NItems
NItems == 2
\* a media body is transferred in NChunks chunks
NChunks == 2

\* a response body handed to the extractor holds at most MaxRecs records in
\* its results list and at most MaxRecs matches of each pattern, over the
\* identifiers 1..MaxRecs
MaxRecs == 2

\* a sanitizer's input is any string of up to MaxNameLen characters followed
\* by a run of one character
MaxNameLen == 2

\* max_pages default of collect_sermon_ids_via_html
HtmlMaxPages == 10

Ids == 1..MaxId

VARIABLES
    \* ---- enumeration (sa_speaker.main and the other drivers) ----
    driver,        \* which job driver runs the enumeration
    page_size,     \* page_size argument of the running enumeration function
                   \* (0 in collect_sermon_ids_via_html, which has none)
    max_pages,     \* max_pages argument of the running enumeration function
    enumPc,        \* "discover" | "node" | "html_start" | "html" | "done"
    page,          \* loop variable of the running pagination loop
    all_ids,       \* all_ids list of the running loop
    seen,          \* seen set of the running loop
    nodeRequests,  \* page requests issued to the node endpoint
    htmlRequests,  \* page requests issued to the HTML listing
    pageLog,       \* page_ids of node pages 1 and 2, once answered with 200
    firstSeen,     \* every identifier received by the running loop, in the
                   \* order of its first appearance
    stopReason,    \* why the last pagination loop ended
    rawCount,      \* records the server put on the last page answered with
                   \* 200, repeated ones included
    delays,        \* time.sleep(0.35) calls of the running pagination loop
    server,        \* the identifiers a consistent server holds, in its
                   \* order (<<>> when the answers are arbitrary)
    \* ---- download job (bulk engine, or sermonaudio.py in a series job) ----
    jobDriver,     \* which driver's loop runs the download steps
    engine,        \* "bulk" (sa_speaker / sa_broadcaster) | "sa_dl" (sermonaudio.py)
    run,           \* "first" | "second" run of the same job on the same root
    idx,           \* position of the current item in the job's list
    phase,         \* "begin" | "request" | "stream" | "item_done" |
                   \* "run_done" | "aborted"
    tierIdx,       \* position of the current tier in the quality ladder
    got,           \* chunks of the current body written so far
    fs,            \* the files under the output root: path -> content
    attempts,      \* media requests of the current item: tier and answer
    result,        \* outcome of the current item's download step
    lastError,     \* the error the step holds (last_error) or raised
    retPath,       \* the path the download step returned
    mediaReqs,     \* media requests issued so far in the current run
    allPublished1, \* every item of the first run ended done or skipped
    interrupted,   \* a KeyboardInterrupt ended a run
    files1,        \* the paths that held a file when the first run ended
    \* ---- credential handling (sa_auth.py, ensure_api_key) ----
    caller,        \* "ensure_api_key" (a job driver) | "direct" (sa_auth main,
                   \* the GUI's check_auth and refresh_api_key)
    force_refresh, \* force_refresh argument of get_api_key
    store,         \* content of auth.txt, or "missing"
    authPc,        \* "start" | "validate" | "fetch" | "save" | "returned" |
                   \* "raised" | "session_set" | "probing"
    key,           \* local variable key of get_api_key / fetch_new_key
    cached,        \* what auth.txt held when get_api_key was called
    probeResult,   \* answer of the validation probe, "none" before it
    probes,        \* validation requests issued
    fetches,       \* homepage fetches issued
    source,        \* where the returned token came from: "cache" | "fetch"
    returned,      \* the token get_api_key returned
    saved,         \* how the write of auth.txt ended, "none" before it
    sessionKey,    \* X-API-Key header of the module's session, or "unset"
    discoveryProbes, \* endpoint probes issued by the job
    \* ---- endpoint discovery and identifier extraction ----
    discPc,        \* "probing" | "returned" | "raised"
    cand,          \* position in NODE_CANDIDATES of the next candidate to probe
    base_url,      \* what discover_node_base returned: a position, 0 for None
    probeLog,      \* the probes issued so far: candidate and how it answered
    body,          \* the body handed to the last call of the extractor
    ordered,       \* the list that call returned
    extractEnd,    \* how that call ended: "none" | "returned" | "raised"
    ranFallback,   \* that call ran its pattern-fallback phase
    \* ---- file name sanitizers ----
    sanitizer,     \* which sanitizer is applied
    name,          \* its input string
    outName,       \* the file name built from its output
    namePc,        \* "call" | "done"
    \* ---- display names and titles read from a scraped page ----
    resolver,      \* which function reads the page
    doc,           \* how the page fetch ended and what the parser finds
    metaPc,        \* "call" | "returned" | "raised" | "proceeding" |
                   \* "aborted"
    metaOut,       \* the string the function returned
    \* ---- the list of a series job (sa_series.download_series) ----
    seriesHtml,    \* how the fetch of the series page ends and the sermon
                   \* references in its text
    seriesFeed,    \* the same for the series feed
    seriesPc,      \* "start" | "page_fetched" | "listed" | "exited" |
                   \* "raised" | "finished"
    sermon_ids,    \* the job's list
    listSource,    \* "none" | "feed" | "html": where the list came from
    feedFetched,   \* the feed was requested
    seriesDownloads, \* download steps started
    \* ---- two job threads at the same destination path ----
    tpc,           \* thread -> "exists" | "request" | "stream" | "replace" |
                   \* "returned" | "failed"
    tTier,         \* thread -> position of its current tier in the ladder
    tGot,          \* thread -> chunks it has written to the temporary file
    tSaw,          \* thread -> what its existence test saw: "none" before
                   \* the test, "absent" | "present"
    tHandle,       \* thread -> where the file it has open is linked now:
                   \* "none" | "part" | "dest" | "unlinked"
    tReqs,         \* thread -> media requests it has issued
    destFile,      \* the file at the destination path, or Absent
    partFile,      \* the file at the temporary path, or Absent
    \* ---- two job threads in ensure_api_key of one module ----
    kpc,           \* thread -> "test" | "get_key" | "set" | "done" |
                   \* "probed"
    kval,          \* thread -> its local variable key
    kUsed,         \* thread -> the X-API-Key its first request carried
    header,        \* X-API-Key header of the shared session, or "unset"
    headerLog,     \* the values written to the header, in order
    \* ---- one module's session across a forced refresh in the GUI ----
    sessHeader,    \* X-API-Key header of the module's session, or "unset"
    authTxt,       \* content of auth.txt, or "missing"
    refreshedKey,  \* the token the last successful forced refresh returned
    sentKey,       \* the X-API-Key of the last request sent since then
    requestsSent,  \* requests sent by the module
    \* ---- a bulk job over items that have titles ----
    titles,        \* item -> the title fetch_sermon_page returns for it
    published,     \* the files under the owner's folder: <<path, item>>
    tIdx,          \* position of the current item in the job's list
    skippedIds,    \* the items of this run skipped as already existing
    pass           \* 1 | 2: first run, or the same job run again

enumVars == <<driver, page_size, max_pages, enumPc, page, all_ids, seen,
              nodeRequests, htmlRequests, pageLog, firstSeen, stopReason,
              rawCount, delays, server>>

jobVars == <<jobDriver, engine, run, idx, phase, tierIdx, got, fs, attempts, result,
             lastError, retPath, mediaReqs, allPublished1, interrupted, files1>>

authVars == <<caller, force_refresh, store, authPc, key, cached, probeResult,
              probes, fetches, source, returned, saved, sessionKey,
              discoveryProbes>>

discVars == <<discPc, cand, base_url, probeLog, body, ordered, extractEnd,
              ranFallback>>

nameVars == <<sanitizer, name, outName, namePc>>

metaVars == <<resolver, doc, metaPc, metaOut>>

seriesVars == <<seriesHtml, seriesFeed, seriesPc, sermon_ids, listSource,
                feedFetched, seriesDownloads>>

raceVars == <<tpc, tTier, tGot, tSaw, tHandle, tReqs, destFile, partFile>>

keyVars == <<kpc, kval, kUsed, header, headerLog>>

\* the variables of the first five subsystems, and those of the others
coreVars == <<enumVars, jobVars, authVars, discVars, nameVars>>
refreshVars == <<sessHeader, authTxt, refreshedKey, sentKey, requestsSent>>

titleVars == <<titles, published, tIdx, skippedIds, pass>>

sideVars == <<metaVars, seriesVars, raceVars, keyVars, refreshVars,
              titleVars>>

vars == <<coreVars, sideVars>>

(***************************************************************************)
(* Pure helpers.                                                           *)
(***************************************************************************)
SeqToSet(s) == {s[i] : i \in 1..Len(s)}

\* all sequences over S of length 0..n
SeqsUpTo(S, n) == UNION {[1..k -> S] : k \in 0..n}

RECURSIVE FilterNotIn(_, _)
\* [sid for sid in ids if sid not in seen]: the test reads the set as it was
\* before the comprehension started
FilterNotIn(ids, seenSet) ==
    IF ids = <<>> THEN <<>>
    ELSE IF Head(ids) \in seenSet
         THEN FilterNotIn(Tail(ids), seenSet)
         ELSE <<Head(ids)>> \o FilterNotIn(Tail(ids), seenSet)

RECURSIVE DedupeFrom(_, _)
\* the seen/ordered loop: keeps the first occurrence of every identifier
DedupeFrom(ids, seenSet) ==
    IF ids = <<>> THEN <<>>
    ELSE IF Head(ids) \in seenSet
         THEN DedupeFrom(Tail(ids), seenSet)
         ELSE <<Head(ids)>> \o DedupeFrom(Tail(ids), seenSet \cup {Head(ids)})

dedupe_ids(ids) == DedupeFrom(ids, {})

\* extract_sermon_ids_from_node_response on a body whose identifier records
\* are, in document order, recs: the collected list is deduplicated
extract_sermon_ids_from_node_response(recs) == dedupe_ids(recs)

\* re.findall(r"/sermons/(\d+)", html_text): every match, in order
findall_sermon_ids(recs) == recs

NoDuplicates(s) == \A i, j \in 1..Len(s) : i # j => s[i] # s[j]

(***************************************************************************)
(* Enumeration.                                                            *)
(***************************************************************************)
Drivers == {"sa_speaker.main", "sa_broadcaster.main",
            "sa_cli.handle_speaker", "sa_cli.handle_broadcaster",
            "sa_gui._task"}

\* only sa_speaker.main calls collect_sermon_ids_via_html
HasHtmlFallback(d) == d = "sa_speaker.main"

\* what a page request can answer: a status (or a transport error) and, for a
\* 200, the identifier records of the body in document order
Responses(maxRecs) ==
    [status : {"200"}, recs : SeqsUpTo(Ids, maxRecs)]
    \cup [status : {"404", "500", "error"}, recs : {<<>>}]

\* the download job is not running
JobIdle ==
    /\ jobDriver = "none"
    /\ engine = "none"
    /\ run = "none"
    /\ idx = 0
    /\ phase = "idle"
    /\ tierIdx = 0
    /\ got = 0
    /\ fs = <<>>
    /\ attempts = <<>>
    /\ result = "none"
    /\ lastError = <<>>
    /\ retPath = <<>>
    /\ mediaReqs = 0
    /\ allPublished1 = FALSE
    /\ interrupted = FALSE
    /\ files1 = {}

\* no credential call is running
AuthIdle ==
    /\ caller = "none"
    /\ force_refresh = FALSE
    /\ store = "missing"
    /\ authPc = "idle"
    /\ key = "none"
    /\ cached = "missing"
    /\ probeResult = "none"
    /\ probes = 0
    /\ fetches = 0
    /\ source = "none"
    /\ returned = "none"
    /\ saved = "none"
    /\ sessionKey = "unset"
    /\ discoveryProbes = 0

\* no discovery and no extraction is running
DiscIdle ==
    /\ discPc = "idle"
    /\ cand = 0
    /\ base_url = 0
    /\ probeLog = <<>>
    /\ body = <<>>
    /\ ordered = <<>>
    /\ extractEnd = "none"
    /\ ranFallback = FALSE

\* no sanitizer is running
NameIdle ==
    /\ sanitizer = "none"
    /\ name = <<>>
    /\ outName = <<>>
    /\ namePc = "idle"

\* no page is being read for a name or a title
MetaIdle ==
    /\ resolver = "none"
    /\ doc = <<>>
    /\ metaPc = "idle"
    /\ metaOut = <<>>

\* no series job is running
SeriesIdle ==
    /\ seriesHtml = <<>>
    /\ seriesFeed = <<>>
    /\ seriesPc = "idle"
    /\ sermon_ids = <<>>
    /\ listSource = "none"
    /\ feedFetched = FALSE
    /\ seriesDownloads = 0

\* no job thread is running
RaceIdle ==
    /\ tpc = <<>>
    /\ tTier = <<>>
    /\ tGot = <<>>
    /\ tSaw = <<>>
    /\ tHandle = <<>>
    /\ tReqs = <<>>
    /\ destFile = <<>>
    /\ partFile = <<>>

KeyIdle ==
    /\ kpc = <<>>
    /\ kval = <<>>
    /\ kUsed = <<>>
    /\ header = "unset"
    /\ headerLog = <<>>

\* no module session is followed across a refresh
\* the modules of the GUI process that send requests, each through its own
\* module-level session
Modules == {"sa_speaker", "sa_search"}

RefreshIdle ==
    /\ sessHeader = [m \in Modules |-> "unset"]
    /\ authTxt = "missing"
    /\ refreshedKey = "none"
    /\ sentKey = "none"
    /\ requestsSent = [m \in Modules |-> 0]

\* no titled job is running
TitleIdle ==
    /\ titles = <<>>
    /\ published = {}
    /\ tIdx = 0
    /\ skippedIds = {}
    /\ pass = 0

SideIdle ==
    /\ MetaIdle
    /\ SeriesIdle
    /\ RaceIdle
    /\ KeyIdle
    /\ RefreshIdle
    /\ TitleIdle

EnumInit ==
    /\ SideIdle
    /\ JobIdle
    /\ AuthIdle
    /\ DiscIdle
    /\ NameIdle
    /\ driver \in Drivers
    /\ page_size \in 1..MaxPageSize
    /\ max_pages \in 1..MaxPages
    /\ enumPc = "discover"
    /\ page = 1
    /\ all_ids = <<>>
    /\ seen = {}
    /\ nodeRequests = 0
    /\ htmlRequests = 0
    /\ pageLog = <<>>
    /\ firstSeen = <<>>
    /\ stopReason = "none"
    /\ rawCount = 0
    /\ delays = 0
    /\ server = <<>>

\* what the driver does with the list collect_sermon_ids_via_node returned
AfterNode(ids) ==
    IF ids = <<>> /\ HasHtmlFallback(driver) THEN "html_start" ELSE "done"

\* ensure_api_key and discover_node_base at the head of
\* collect_sermon_ids_via_node: either an endpoint is found or [] is returned
Discover(found) ==
    /\ UNCHANGED <<jobVars, authVars, discVars, nameVars,
                   sideVars>>
    /\ enumPc = "discover"
    /\ IF found
       THEN /\ enumPc' = "node"
            /\ stopReason' = "none"
       ELSE /\ enumPc' = AfterNode(<<>>)
            /\ stopReason' = "nodiscovery"
    /\ UNCHANGED <<driver, page_size, max_pages, page, all_ids, seen,
                   nodeRequests, htmlRequests, pageLog, firstSeen, rawCount,
                   delays, server>>

\* mutant: a loop that never checks its page bound
NodeLoopContinues_Unbounded(p) == TRUE

\* for page in range(1, max_pages + 1)
NodeLoopContinues(p) == p <= max_pages

\* mutant: the short-page test applied to the deduplicated new_ids
IsShortPage_NewIds(page_ids, new_ids) == Len(new_ids) < page_size

\* mutant: a full page is taken for the last one too
IsShortPage_OrFull(page_ids, new_ids) == Len(page_ids) <= page_size

\* if len(page_ids) < page_size: break
IsShortPage(page_ids, new_ids) == Len(page_ids) < page_size

\* mutant: the loop ends at a page that brings no new identifier
IsEndOfData_NoNewIds(page_ids, new_ids) == new_ids = <<>>

\* if not page_ids: break
IsEndOfData(page_ids, new_ids) == page_ids = <<>>

\* mutant: the list is dropped when a page request fails
ReturnedOnBreak_Nothing(acc) == <<>>

\* break, then return all_ids: what was accumulated so far is returned
ReturnedOnBreak(acc) == acc

\* one iteration of the loop of collect_sermon_ids_via_node
NodePage(resp) ==
    /\ UNCHANGED <<jobVars, authVars, discVars, nameVars,
                   sideVars>>
    /\ enumPc = "node"
    /\ nodeRequests' = nodeRequests + 1
    /\ UNCHANGED <<driver, page_size, max_pages, htmlRequests, server>>
    /\ IF resp.status # "200"
       THEN \* non-200 or transport error: break
            /\ stopReason' = "status"
            /\ all_ids' = ReturnedOnBreak(all_ids)
            /\ enumPc' = AfterNode(all_ids')
            /\ UNCHANGED <<page, seen, pageLog, firstSeen, rawCount, delays>>
       ELSE LET page_ids == extract_sermon_ids_from_node_response(resp.recs)
                new_ids == FilterNotIn(page_ids, seen)
            IN  /\ rawCount' = Len(resp.recs)
                /\ pageLog' = IF page <= 2
                               THEN Append(pageLog, page_ids)
                               ELSE pageLog
                /\ firstSeen' = firstSeen \o
                                DedupeFrom(resp.recs, SeqToSet(firstSeen))
                /\ IF IsEndOfData(page_ids, new_ids)
                   THEN /\ stopReason' = "empty"
                        /\ enumPc' = AfterNode(all_ids)
                        /\ UNCHANGED <<page, all_ids, seen, delays>>
                   ELSE /\ all_ids' = all_ids \o new_ids
                        /\ seen' = seen \cup SeqToSet(new_ids)
                        /\ IF IsShortPage(page_ids, new_ids)
                           THEN /\ stopReason' = "short"
                                /\ enumPc' = AfterNode(all_ids')
                                /\ UNCHANGED <<page, delays>>
                           ELSE \* time.sleep(0.35), then the next value
                                \* of range(1, max_pages + 1), if any
                                /\ delays' = delays + 1
                                /\ page' = page + 1
                                /\ IF NodeLoopContinues(page + 1)
                                   THEN /\ stopReason' = "none"
                                        /\ enumPc' = "node"
                                   ELSE /\ stopReason' = "maxpages"
                                        /\ enumPc' = AfterNode(all_ids')

\* the driver enters collect_sermon_ids_via_html(speaker_id): max_pages takes
\* its default, all_ids and seen start empty
HtmlStart ==
    /\ UNCHANGED <<jobVars, authVars, discVars, nameVars,
                   sideVars>>
    /\ enumPc = "html_start"
    /\ enumPc' = "html"
    /\ page' = 1
    /\ all_ids' = <<>>
    /\ seen' = {}
    /\ stopReason' = "none"
    /\ firstSeen' = <<>>
    /\ page_size' = 0
    /\ max_pages' = HtmlMaxPages
    /\ rawCount' = 0
    /\ delays' = 0
    /\ UNCHANGED <<driver, nodeRequests, htmlRequests, pageLog, server>>

\* one iteration of the loop of collect_sermon_ids_via_html
HtmlPage(resp) ==
    /\ UNCHANGED <<jobVars, authVars, discVars, nameVars,
                   sideVars>>
    /\ enumPc = "html"
    /\ htmlRequests' = htmlRequests + 1
    /\ UNCHANGED <<driver, page_size, max_pages, nodeRequests, pageLog,
                   server>>
    /\ IF resp.status # "200"
       THEN \* fetch_html raised: break
            /\ stopReason' = "status"
            /\ enumPc' = "done"
            /\ UNCHANGED <<page, all_ids, seen, firstSeen, rawCount, delays>>
       ELSE LET ids == findall_sermon_ids(resp.recs)
                new_ids == FilterNotIn(ids, seen)
            IN  /\ rawCount' = Len(resp.recs)
                /\ firstSeen' = firstSeen \o
                                DedupeFrom(resp.recs, SeqToSet(firstSeen))
                /\ IF new_ids = <<>>
                   THEN /\ stopReason' = "empty"
                        /\ enumPc' = "done"
                        /\ UNCHANGED <<page, all_ids, seen, delays>>
                   ELSE /\ all_ids' = all_ids \o new_ids
                        /\ seen' = seen \cup SeqToSet(new_ids)
                        /\ delays' = delays + 1
                        /\ page' = page + 1
                        /\ IF page + 1 <= max_pages
                           THEN /\ stopReason' = "none"
                                /\ enumPc' = "html"
                           ELSE /\ stopReason' = "maxpages"
                                /\ enumPc' = "done"

EnumNext ==
    \/ \E found \in BOOLEAN : Discover(found)
    \/ \E resp \in Responses(page_size) : NodePage(resp)
    \/ HtmlStart
    \/ \E resp \in Responses(MaxHtmlRefs) : HtmlPage(resp)

SpecEnum == EnumInit /\ [][EnumNext]_vars

\* collect_sermon_ids_via_html has been entered
HtmlEntered == enumPc = "html" \/ htmlRequests > 0

(***************************************************************************)
(* C3: after any sequence of page responses the list accumulated by an      *)
(* enumeration (endpoint pagination or HTML listing) holds no identifier    *)
(* twice and lists the identifiers in the order they were first seen.       *)
(***************************************************************************)
C3_UniqueFirstSeen == NoDuplicates(all_ids) /\ all_ids = firstSeen

(***************************************************************************)
(* C4: endpoint enumeration issues at most max_pages page requests and has  *)
(* returned once max_pages requests were issued, whatever the server sends. *)
(***************************************************************************)
C4_BoundedRequests ==
    ~HtmlEntered =>
        /\ nodeRequests <= max_pages
        /\ enumPc = "node" => nodeRequests < max_pages

\* max_pages full pages were served, the last of them only repeating
\* identifiers, and the enumeration returned
C4_Witness ==
    /\ ~HtmlEntered
    /\ enumPc = "done"
    /\ stopReason = "maxpages"
    /\ max_pages = MaxPages
    /\ nodeRequests = max_pages
    /\ Len(all_ids) = page_size

(***************************************************************************)
(* C5 as stated: with pageSize 2, page 1 = [1,2] and page 2 = [2,3] the     *)
(* list is [1,2,3] and no request for page 3 is issued.                     *)
(***************************************************************************)
C5_StopsAfterPage2 ==
    (page_size = 2 /\ pageLog = <<(<<1, 2>>), (<<2, 3>>)>>) =>
        /\ all_ids = <<1, 2, 3>>
        /\ nodeRequests = 2
        /\ enumPc # "node"

(***************************************************************************)
(* C5 amended: after page 1 = [1,2] and page 2 = [2,3] with pageSize 2 the  *)
(* list starts [1,2,3]; page 2 is a full page (2 records), so page 3 is     *)
(* requested unless max_pages = 2, and the enumeration stops after page 2   *)
(* exactly when max_pages = 2.                                              *)
(***************************************************************************)
C5_FullPageContinues ==
    (page_size = 2 /\ pageLog = <<(<<1, 2>>), (<<2, 3>>)>>) =>
        /\ SubSeq(all_ids, 1, 3) = <<1, 2, 3>>
        /\ nodeRequests = 2 => (enumPc = "node" <=> max_pages > 2)
        /\ max_pages = 2 => nodeRequests = 2

\* the scenario's two pages were served and page 3 was requested
C5_Witness ==
    /\ page_size = 2
    /\ pageLog = <<(<<1, 2>>), (<<2, 3>>)>>
    /\ nodeRequests = 3
    /\ all_ids = <<1, 2, 3>>

(***************************************************************************)
(* C12: in every bulk job driver, when discovery found no working endpoint *)
(* the job goes on to scrape the owner's HTML listing before it concludes  *)
(* that there is nothing to download.                                      *)
(***************************************************************************)
C12_HtmlFallbackEverywhere ==
    stopReason = "nodiscovery" => enumPc = "html_start"

(***************************************************************************)
(* C13: when the request of page k of the endpoint enumeration answers a   *)
(* non-200 status or fails in transport, no further page is requested and  *)
(* the enumeration returns, without raising, exactly the identifiers of    *)
(* pages 1..k-1 in first-seen order; the HTML listing loop stops at its    *)
(* failed page in the same way.                                            *)
(***************************************************************************)
C13_PartialOnStatus ==
    stopReason = "status" =>
        /\ enumPc \in {"done", "html_start"}
        /\ ~HtmlEntered =>
               /\ nodeRequests = page
               /\ all_ids = firstSeen
               /\ NoDuplicates(all_ids)
               /\ Len(all_ids) <= (page - 1) * page_size
        /\ HtmlEntered =>
               /\ htmlRequests = page
               /\ SeqToSet(all_ids) = SeqToSet(firstSeen)

\* page 1 delivered identifiers, the request of page 2 failed and the
\* enumeration returned what page 1 had delivered
C13_Witness ==
    /\ stopReason = "status"
    /\ ~HtmlEntered
    /\ enumPc = "done"
    /\ page = 2
    /\ nodeRequests = 2
    /\ Len(all_ids) = 2

\* node pages 1 and 2 were answered with 200 and page 2 was a full page that
\* brought no identifier page 1 had not brought
C29_FullPageOfRepeats ==
    /\ ~HtmlEntered
    /\ Len(pageLog) = 2
    /\ Len(pageLog[2]) = page_size
    /\ SeqToSet(pageLog[2]) \subseteq SeqToSet(pageLog[1])

C30_RawCountDecides ==
    (~HtmlEntered /\ stopReason = "short") => rawCount < page_size

(***************************************************************************)
(* Enumeration against a consistent server: it holds a list of distinct    *)
(* identifiers and answers page p with the p-th run of page_size of them,  *)
(* and with an empty page beyond the end.                                  *)
(***************************************************************************)
ServerLists == {l \in SeqsUpTo(Ids, MaxId) : NoDuplicates(l)}

\* page p of the list, n identifiers to a page
ServerPage(list, p, n) ==
    LET first == (p - 1) * n + 1
        last == IF p * n <= Len(list) THEN p * n ELSE Len(list)
    IN  IF first > Len(list) THEN <<>> ELSE SubSeq(list, first, last)

\* collect_sermon_ids_via_node after discovery found an endpoint
FullInit ==
    /\ SideIdle
    /\ JobIdle
    /\ AuthIdle
    /\ DiscIdle
    /\ NameIdle
    /\ driver \in Drivers
    /\ page_size \in 1..MaxPageSize
    /\ max_pages \in 1..MaxPages
    /\ server \in ServerLists
    /\ Len(server) <= page_size * max_pages
    /\ enumPc = "node"
    /\ page = 1
    /\ all_ids = <<>>
    /\ seen = {}
    /\ nodeRequests = 0
    /\ htmlRequests = 0
    /\ pageLog = <<>>
    /\ firstSeen = <<>>
    /\ stopReason = "none"
    /\ rawCount = 0
    /\ delays = 0

FullNext ==
    /\ enumPc = "node"
    /\ NodePage([status |-> "200",
                 recs |-> ServerPage(server, page, page_size)])

SpecFull == FullInit /\ [][FullNext]_vars

(***************************************************************************)
(* C31: against a consistent server that holds K <= page_size * max_pages  *)
(* distinct identifiers, the enumeration returns all K of them in server   *)
(* order, also when K is a multiple of page_size and when the last page is *)
(* short; while it runs, the list is the pages fetched so far.             *)
(***************************************************************************)
C31_ReturnsAllInOrder ==
    /\ enumPc # "node" => all_ids = server
    /\ enumPc = "node" =>
           all_ids = SubSeq(server, 1, (page - 1) * page_size)

\* K = 2 * page_size: two full pages, then the empty page ended the loop
C31_Witness ==
    /\ page_size = 1
    /\ Len(server) = 2
    /\ nodeRequests = 3
    /\ stopReason = "empty"
    /\ all_ids = server

(***************************************************************************)
(* C32: the HTML listing is requested only when endpoint discovery failed: *)
(* a job that sent a page request to a discovered endpoint issues no       *)
(* HTML-listing request.                                                   *)
(***************************************************************************)
C32_HtmlOnlyWithoutEndpoint ==
    nodeRequests > 0 => (htmlRequests = 0 /\ enumPc \notin {"html_start", "html"})

(***************************************************************************)
(* C33: the politeness delay is taken only between page requests: when a   *)
(* pagination loop has ended after n >= 1 page requests it has slept       *)
(* n - 1 times, and while it runs it has slept once per request made.      *)
(***************************************************************************)
C33_DelayOnlyBetweenPages ==
    LET requests == IF HtmlEntered THEN htmlRequests ELSE nodeRequests
    IN  /\ enumPc \in {"node", "html"} => delays = requests
        /\ (enumPc \in {"done", "html_start"} /\ requests > 0
            /\ stopReason # "nodiscovery") => delays = requests - 1

(***************************************************************************)
(* The download job: for each item of the list, the download step of the   *)
(* engine; the same job is then run a second time on the same output root. *)
(***************************************************************************)
Items == 1..NItems

\* the idle values of the enumeration variables
EnumIdle ==
    /\ driver = "none"
    /\ page_size = 0
    /\ max_pages = 0
    /\ enumPc = "idle"
    /\ page = 0
    /\ all_ids = <<>>
    /\ seen = {}
    /\ nodeRequests = 0
    /\ htmlRequests = 0
    /\ pageLog = <<>>
    /\ firstSeen = <<>>
    /\ stopReason = "none"
    /\ rawCount = 0
    /\ delays = 0
    /\ server = <<>>

Engines == {"bulk", "sa_dl"}

\* the loops that run a download step per item: the loop of sa_speaker.main
\* (sa_broadcaster.main and the two sa_cli handlers have the same loop), the
\* loop of the GUI's bulk tasks and the loop of sa_series.download_series
JobDrivers == {"sa_speaker.main", "sa_gui._task", "sa_series.download_series"}

\* the engine a driver's loop calls
EngineOf(d) == IF d = "sa_series.download_series" THEN "sa_dl" ELSE "bulk"

\* the loop wraps each download step in try / except Exception; the GUI
\* tasks have one try around the whole loop
CatchesItemErrors(d) == d # "sa_gui._task"

\* mutant: the two tiers tried in the opposite order
Ladder_Swapped(e) == IF e = "bulk" THEN <<"high", "low">> ELSE <<"low", "high">>

\* the order in which the tiers are tried: url_low then url_high in
\* download_sermon_audio, ("high", "low") in download_audio_with_fallback
Ladder(e) == IF e = "bulk" THEN <<"low", "high">> ELSE <<"high", "low">>

\* dest_path of download_sermon_audio and its tmp_path dest_path + ".part"
DestPath(i) == <<"dest", i>>
PartPath(i) == <<"part", i>>
\* output_path of sermonaudio.download_file: <output_dir>/<id>.mp3
OutPath(i) == <<"out", i>>
\* the tag-based names of maybe_rename_audio_file: "Artist - Title_<suffix>"
\* (k = 0) and "Artist - Title_<suffix>_<k>" (k >= 1)
CanonPath(i, t, k) == <<"canon", i, t, k>>

\* one more disambiguated name than there are runs that can take one
Disambiguators == 0..2

Paths ==
    {DestPath(i) : i \in Items} \cup {PartPath(i) : i \in Items}
    \cup {OutPath(i) : i \in Items}
    \cup {CanonPath(i, t, k) : i \in Items, t \in {"high", "low"},
                               k \in Disambiguators}

\* the paths at which an engine leaves the files it delivers
FinalPaths(e, i) ==
    IF e = "bulk" THEN {DestPath(i)}
    ELSE {OutPath(i)} \cup {CanonPath(i, t, k) : t \in {"high", "low"},
                                                 k \in Disambiguators}

\* the path an engine streams a body to
StreamPath(e, i) == IF e = "bulk" THEN PartPath(i) ELSE OutPath(i)

Absent == [tier |-> "none", chunks |-> 0]
File(t, c) == [tier |-> t, chunks |-> c]
Exists(f) == f.tier # "none"
Complete(f) == Exists(f) /\ f.chunks = NChunks
FileSet(files) == {p \in Paths : Exists(files[p])}

NoError == [tier |-> "none", kind |-> "none"]

JobInit ==
    /\ SideIdle
    /\ EnumIdle
    /\ AuthIdle
    /\ DiscIdle
    /\ NameIdle
    /\ jobDriver \in JobDrivers
    /\ engine = EngineOf(jobDriver)
    /\ run = "first"
    /\ idx = 1
    /\ phase = "begin"
    /\ tierIdx = 0
    /\ got = 0
    /\ fs = [p \in Paths |-> Absent]
    /\ attempts = <<>>
    /\ result = "pending"
    /\ lastError = NoError
    /\ retPath = <<>>
    /\ mediaReqs = 0
    /\ allPublished1 = TRUE
    /\ interrupted = FALSE
    /\ files1 = {}

\* mutant: no existence check before the ladder
AlreadyThere_Never(e, i) == FALSE

\* if os.path.exists(dest_path): return dest_path -- the bulk engine only;
\* download_audio_with_fallback has no such test
AlreadyThere(e, i) == e = "bulk" /\ Exists(fs[DestPath(i)])

\* the head of the download step: download_sermon_audio fetches the sermon
\* page (which may raise) and tests the destination; the series loop calls
\* download_audio_with_fallback at once
BeginItem(metaOk) ==
    /\ UNCHANGED <<enumVars, authVars, discVars, nameVars,
                   sideVars>>
    /\ phase = "begin"
    /\ engine = "sa_dl" => metaOk
    /\ attempts' = <<>>
    /\ got' = 0
    /\ IF ~metaOk
       THEN /\ result' = "raised"
            /\ lastError' = [tier |-> "none", kind |-> "metadata"]
            /\ phase' = "item_done"
            /\ UNCHANGED <<tierIdx, retPath>>
       ELSE IF AlreadyThere(engine, idx)
       THEN /\ result' = "skipped"
            /\ lastError' = NoError
            /\ retPath' = DestPath(idx)
            /\ phase' = "item_done"
            /\ UNCHANGED tierIdx
       ELSE /\ result' = "pending"
            /\ lastError' = NoError
            /\ tierIdx' = 1
            /\ phase' = "request"
            /\ UNCHANGED retPath
    /\ UNCHANGED <<jobDriver, engine, run, idx, fs, mediaReqs, allPublished1,
                   interrupted, files1>>

\* the tier after a failed one, or the end of the ladder
FallThrough(failure) ==
    IF tierIdx < Len(Ladder(engine))
    THEN /\ tierIdx' = tierIdx + 1
         /\ phase' = "request"
         /\ result' = "pending"
         /\ lastError' = IF engine = "sa_dl" THEN failure ELSE lastError
    ELSE /\ phase' = "item_done"
         /\ UNCHANGED tierIdx
         /\ IF engine = "sa_dl"
            THEN \* raise last_error
                 /\ result' = "raised"
                 /\ lastError' = failure
            ELSE \* return None
                 /\ result' = "none"
                 /\ UNCHANGED lastError

\* mutant: the file is opened for appending
OpenForWriting_Append(old, tier) == IF Exists(old) THEN old ELSE File(tier, 0)

\* open(<stream path>, "wb"): a new empty file, or the file that is there
\* cut to length 0
OpenForWriting(old, tier) == File(tier, 0)

\* the media request of the current tier and what follows its answer:
\* "200", "404" (any refused status) or "error" (the request raises)
Request(answer) ==
    /\ UNCHANGED <<enumVars, authVars, discVars, nameVars,
                   sideVars>>
    /\ phase = "request"
    /\ LET tier == Ladder(engine)[tierIdx]
       IN  /\ attempts' = Append(attempts, [tier |-> tier, answer |-> answer])
           /\ mediaReqs' = mediaReqs + 1
           /\ CASE answer = "200" ->
                     /\ fs' = [fs EXCEPT ![StreamPath(engine, idx)] =
                                            OpenForWriting(@, tier)]
                     /\ phase' = "stream"
                     /\ got' = 0
                     /\ UNCHANGED <<tierIdx, result, lastError>>
                [] answer = "404" ->
                     /\ FallThrough([tier |-> tier, kind |-> "http"])
                     /\ UNCHANGED <<fs, got>>
                [] answer = "error" ->
                     /\ IF engine = "sa_dl"
                        THEN \* except urllib.error.URLError
                             FallThrough([tier |-> tier, kind |-> "url"])
                        ELSE \* the exception leaves download_sermon_audio
                             /\ result' = "raised"
                             /\ lastError' = [tier |-> tier,
                                              kind |-> "transport"]
                             /\ phase' = "item_done"
                             /\ UNCHANGED tierIdx
                     /\ UNCHANGED <<fs, got>>
    /\ UNCHANGED <<jobDriver, engine, run, idx, retPath, allPublished1, interrupted,
                   files1>>

\* one chunk arrives and is written
StreamChunk ==
    /\ UNCHANGED <<enumVars, authVars, discVars, nameVars,
                   sideVars>>
    /\ phase = "stream"
    /\ got < NChunks
    /\ got' = got + 1
    /\ fs' = [fs EXCEPT ![StreamPath(engine, idx)].chunks = @ + 1]
    /\ UNCHANGED <<jobDriver, engine, run, idx, phase, tierIdx, attempts, result,
                   lastError, retPath, mediaReqs, allPublished1, interrupted,
                   files1>>

\* the stream breaks before the body is complete: the read raises, which
\* neither engine catches inside the ladder
StreamFail ==
    /\ UNCHANGED <<enumVars, authVars, discVars, nameVars,
                   sideVars>>
    /\ phase = "stream"
    /\ got < NChunks
    /\ result' = "raised"
    /\ lastError' = [tier |-> Ladder(engine)[tierIdx], kind |-> "stream"]
    /\ phase' = "item_done"
    /\ UNCHANGED <<jobDriver, engine, run, idx, tierIdx, got, fs, attempts, retPath,
                   mediaReqs, allPublished1, interrupted, files1>>

RECURSIVE FirstFree(_, _, _, _)
\* the while loop of maybe_rename_audio_file: the first i >= k whose
\* candidate does not exist
FirstFree(files, i, t, k) ==
    IF ~Exists(files[CanonPath(i, t, k)]) THEN k
    ELSE FirstFree(files, i, t, k + 1)

\* mutant: the canonical name is taken whether or not it is free
RenameTarget_Canonical(files, i, t) == CanonPath(i, t, 0)

\* where maybe_rename_audio_file moves the file to
RenameTarget(files, i, t) ==
    IF ~Exists(files[CanonPath(i, t, 0)]) THEN CanonPath(i, t, 0)
    ELSE CanonPath(i, t, FirstFree(files, i, t, 1))

\* the body is complete: os.replace(tmp_path, dest_path) in the bulk engine;
\* in sermonaudio.py the optional tag-based rename
Finish(tagged) ==
    /\ UNCHANGED <<enumVars, authVars, discVars, nameVars,
                   sideVars>>
    /\ phase = "stream"
    /\ got = NChunks
    /\ engine = "bulk" => ~tagged
    /\ LET tier == Ladder(engine)[tierIdx]
       IN  IF engine = "bulk"
           THEN /\ fs' = [fs EXCEPT ![DestPath(idx)] = fs[PartPath(idx)],
                                    ![PartPath(idx)] = Absent]
                /\ retPath' = DestPath(idx)
           ELSE IF tagged
           THEN LET target == RenameTarget(fs, idx, tier)
                IN  /\ fs' = [fs EXCEPT ![target] = fs[OutPath(idx)],
                                        ![OutPath(idx)] = Absent]
                    /\ retPath' = target
           ELSE /\ retPath' = OutPath(idx)
                /\ UNCHANGED fs
    /\ result' = "done"
    /\ phase' = "item_done"
    /\ UNCHANGED <<jobDriver, engine, run, idx, tierIdx, got, attempts, lastError,
                   mediaReqs, allPublished1, interrupted, files1>>

\* KeyboardInterrupt while a request or a stream is in flight: the run ends
Interrupt ==
    /\ UNCHANGED <<enumVars, authVars, discVars, nameVars,
                   sideVars>>
    /\ phase \in {"request", "stream"}
    /\ phase' = "aborted"
    /\ result' = "interrupted"
    /\ interrupted' = TRUE
    /\ allPublished1' = IF run = "first" THEN FALSE ELSE allPublished1
    /\ UNCHANGED <<jobDriver, engine, run, idx, tierIdx, got, fs, attempts, lastError,
                   retPath, mediaReqs, files1>>

\* mutant: the loop moves on while the step is still requesting
ItemSettled_Early(ph, res) == ph \in {"item_done", "request"}

\* the call of the download step has returned or raised
ItemSettled(ph, res) == ph = "item_done" /\ res # "pending"

\* an exception of the download step reaches the single try of a GUI task:
\* the loop is left and the remaining items are not processed
Propagate ==
    /\ UNCHANGED <<enumVars, authVars, discVars, nameVars,
                   sideVars>>
    /\ ItemSettled(phase, result)
    /\ result = "raised"
    /\ ~CatchesItemErrors(jobDriver)
    /\ phase' = "aborted"
    /\ allPublished1' = IF run = "first" THEN FALSE ELSE allPublished1
    /\ UNCHANGED <<jobDriver, engine, run, idx, tierIdx, got, fs, attempts,
                   result, lastError, retPath, mediaReqs, interrupted, files1>>

\* the driver's loop goes on to the next item, whatever the outcome; the
\* locals of the finished download step are gone
NextItem ==
    /\ UNCHANGED <<enumVars, authVars, discVars, nameVars,
                   sideVars>>
    /\ ItemSettled(phase, result)
    /\ result = "raised" => CatchesItemErrors(jobDriver)
    /\ allPublished1' = IF run = "first" /\ result \notin {"done", "skipped"}
                        THEN FALSE ELSE allPublished1
    /\ IF idx < NItems
       THEN /\ idx' = idx + 1
            /\ phase' = "begin"
       ELSE /\ phase' = "run_done"
            /\ UNCHANGED idx
    /\ tierIdx' = 0
    /\ got' = 0
    /\ attempts' = <<>>
    /\ result' = "pending"
    /\ lastError' = NoError
    /\ retPath' = <<>>
    /\ UNCHANGED <<jobDriver, engine, run, fs, mediaReqs, interrupted, files1>>

\* the same job is started again on the same output root
NextRun ==
    /\ UNCHANGED <<enumVars, authVars, discVars, nameVars,
                   sideVars>>
    /\ phase \in {"run_done", "aborted"}
    /\ run = "first"
    /\ run' = "second"
    /\ idx' = 1
    /\ phase' = "begin"
    /\ files1' = FileSet(fs)
    /\ mediaReqs' = 0
    /\ tierIdx' = 0
    /\ got' = 0
    /\ attempts' = <<>>
    /\ result' = "pending"
    /\ lastError' = NoError
    /\ retPath' = <<>>
    /\ UNCHANGED <<jobDriver, engine, fs, allPublished1, interrupted>>

JobNext ==
    \/ \E metaOk \in BOOLEAN : BeginItem(metaOk)
    \/ \E answer \in {"200", "404", "error"} : Request(answer)
    \/ StreamChunk
    \/ StreamFail
    \/ \E tagged \in BOOLEAN : Finish(tagged)
    \/ Interrupt
    \/ Propagate
    \/ NextItem
    \/ NextRun

SpecJob == JobInit /\ [][JobNext]_vars

(***************************************************************************)
(* C1: in every reachable state, also after a broken stream or an          *)
(* interruption, every final destination path is absent or holds a         *)
(* completely transferred body; partial data exists only at the temporary  *)
(* path.                                                                   *)
(***************************************************************************)
C1_NoPartialAtFinal ==
    \A i \in Items : \A p \in FinalPaths(engine, i) :
        ~Exists(fs[p]) \/ Complete(fs[p])

(***************************************************************************)
(* C2: when the first run published every item and nothing was             *)
(* interrupted, the second run of the same job issues no media request and *)
(* ends with the same set of files under the output root.                  *)
(***************************************************************************)
C2_SecondRunIdle ==
    (run = "second" /\ allPublished1 /\ ~interrupted) =>
        /\ mediaReqs = 0
        /\ phase = "run_done" => FileSet(fs) = files1

\* the order of the tiers the engines document: sermonaudio.py tries high
\* then low, the bulk engine low then high
C6_DocumentedOrder(e) ==
    IF e = "sa_dl" THEN <<"high", "low">> ELSE <<"low", "high">>

(***************************************************************************)
(* C6: the tiers of an item are requested in ladder order, no tier is      *)
(* requested after one answered 200, and a delivered file is the complete  *)
(* body of the first tier that answered 200.                               *)
(***************************************************************************)
C6_LadderOrder ==
    /\ Len(attempts) <= Len(C6_DocumentedOrder(engine))
    /\ \A k \in 1..Len(attempts) :
           attempts[k].tier = C6_DocumentedOrder(engine)[k]
    /\ \A k \in 1..(Len(attempts) - 1) : attempts[k].answer # "200"
    /\ result = "done" =>
           /\ attempts # <<>>
           /\ attempts[Len(attempts)].answer = "200"
           /\ Complete(fs[retPath])
           /\ fs[retPath].tier = attempts[Len(attempts)].tier

\* ladder [high, low]: high answered 404, low answered 200 and was delivered
C6_Witness ==
    /\ engine = "sa_dl"
    /\ attempts = <<[tier |-> "high", answer |-> "404"],
                    [tier |-> "low", answer |-> "200"]>>
    /\ result = "done"
    /\ Complete(fs[retPath])
    /\ fs[retPath].tier = "low"

(***************************************************************************)
(* C7: when every tier of the ladder has failed for an item, the download  *)
(* step has failed with an error that carries the error of the last tier   *)
(* attempted, and no file exists at the item's final destination.          *)
(***************************************************************************)
C7_AllTiersFail ==
    (/\ phase = "item_done"
     /\ Len(attempts) = Len(Ladder(engine))
     /\ result # "done") =>
        /\ result = "raised"
        /\ lastError.kind # "none"
        /\ lastError.tier = attempts[Len(attempts)].tier
        /\ run = "first" =>
               \A p \in FinalPaths(engine, idx) : ~Exists(fs[p])

(***************************************************************************)
(* C14: a failure of one item never keeps the later items from being       *)
(* processed: a run ends before its last item only on a cancellation.      *)
(***************************************************************************)
C14_FailureIsolated ==
    /\ phase = "aborted" => result = "interrupted"
    /\ (phase = "item_done" /\ idx < NItems) => ENABLED NextItem

(***************************************************************************)
(* C15: items are processed one after the other in list order: a media     *)
(* request is issued only for the current item, and the loop moves from    *)
(* item i to item i+1, and to no other, only once the download step of     *)
(* item i has ended (done, skipped or failed).                             *)
(***************************************************************************)
C15_Sequential ==
    [][/\ mediaReqs' > mediaReqs =>
              /\ phase = "request"
              /\ idx' = idx
              /\ attempts' = Append(attempts, attempts'[Len(attempts')])
       /\ (idx' # idx /\ run' = run) =>
              /\ idx' = idx + 1
              /\ phase = "item_done"
              /\ result \in {"done", "skipped", "raised", "none"}
              /\ phase' = "begin"
       /\ (phase' = "begin" /\ phase # "begin") =>
              /\ attempts' = <<>>
              /\ result' = "pending"]_vars

\* item 1 was published and a media request of item 2 is in flight
C15_Witness ==
    /\ run = "first"
    /\ idx = 2
    /\ phase = "stream"
    /\ Complete(fs[DestPath(1)])
    /\ Len(attempts) = 1

(***************************************************************************)
(* C16: once a cancellation arrived while item i was being processed, the  *)
(* run issues no further request, and the final destination of item i is   *)
(* absent or a complete file, wherever in the stream the signal arrived.   *)
(***************************************************************************)
C16_CancelLeavesNoPartial ==
    /\ (interrupted /\ run = "first") => phase = "aborted"
    /\ (interrupted /\ phase = "aborted") =>
           \A p \in FinalPaths(engine, idx) :
               ~Exists(fs[p]) \/ Complete(fs[p])

(***************************************************************************)
(* C34: a temporary file left at <destination>.part by an interrupted run  *)
(* is ignored by the bulk engine: only a file at the destination makes an  *)
(* item count as done, the temporary file holds nothing but what the       *)
(* current request has delivered, and the file published at the            *)
(* destination is the complete body of the tier that succeeded.            *)
(***************************************************************************)
C34_StalePartIgnored ==
    engine = "bulk" =>
        /\ (phase = "item_done" /\ result = "skipped") =>
               Exists(fs[DestPath(idx)])
        /\ phase = "stream" =>
               fs[PartPath(idx)] = File(Ladder(engine)[tierIdx], got)
        /\ (phase = "item_done" /\ result = "done") =>
               /\ fs[DestPath(idx)] =
                      File(attempts[Len(attempts)].tier, NChunks)
               /\ ~Exists(fs[PartPath(idx)])

\* the first run was interrupted with part of the body at the temporary
\* path; the second run downloaded the item and published a complete file
C34_Witness ==
    /\ engine = "bulk"
    /\ run = "second"
    /\ interrupted
    /\ PartPath(idx) \in files1
    /\ DestPath(idx) \notin files1
    /\ result = "done"
    /\ Complete(fs[DestPath(idx)])
    /\ ~Exists(fs[PartPath(idx)])

(***************************************************************************)
(* C39: the ladder falls through on every kind of tier failure: an item is *)
(* declared failed only after every tier has been requested, whether the   *)
(* earlier tier failed by status, by a transport error or in the stream.   *)
(***************************************************************************)
C39_FallsThroughOnAnyFailure ==
    (/\ phase = "item_done"
     /\ result \in {"raised", "none"}
     /\ lastError.kind # "metadata") =>
        Len(attempts) = Len(Ladder(engine))

(***************************************************************************)
(* C28: when the bulk engine finds the destination path of an item         *)
(* present, the step issues no media request for any tier, leaves every    *)
(* file as it is, creates no temporary file and returns the destination    *)
(* path as already downloaded (the sermon page is fetched before the test: *)
(* when that fetch raises, the step raises and touches nothing either).    *)
(***************************************************************************)
C28_ExistingIsSkipped ==
    [][(phase = "begin" /\ engine = "bulk" /\ Exists(fs[DestPath(idx)])) =>
           /\ fs' = fs
           /\ mediaReqs' = mediaReqs
           /\ attempts' = <<>>
           /\ phase' = "item_done"
           /\ \/ result' = "skipped" /\ retPath' = DestPath(idx)
              \/ result' = "raised" /\ lastError'.kind = "metadata"]_vars

\* a second run found the file of its last item present and skipped it
\* without any media request
C28_Witness ==
    /\ engine = "bulk"
    /\ run = "second"
    /\ idx = NItems
    /\ result = "skipped"
    /\ retPath = DestPath(idx)
    /\ Complete(fs[DestPath(idx)])
    /\ ~Exists(fs[PartPath(idx)])
    /\ mediaReqs = 0

(***************************************************************************)
(* The tag-based rename on its own: a body has just been streamed to       *)
(* OutPath(idx) in an output directory that already holds any set of files *)
(* under the tag-based names of earlier downloads.                         *)
(***************************************************************************)

\* the names earlier downloads may have taken: the canonical one and the
\* first disambiguated one, so that the loop ends within Disambiguators
TakenNames ==
    {CanonPath(i, t, k) : i \in Items, t \in {"high", "low"}, k \in 0..1}

RenameInit ==
    /\ SideIdle
    /\ EnumIdle
    /\ AuthIdle
    /\ DiscIdle
    /\ NameIdle
    /\ jobDriver = "sa_series.download_series"
    /\ engine = EngineOf(jobDriver)
    /\ run = "first"
    /\ idx \in Items
    /\ phase = "stream"
    /\ tierIdx \in 1..2
    /\ got = NChunks
    /\ \E taken \in SUBSET TakenNames :
           fs = [p \in Paths |->
                    IF p = OutPath(idx)
                    THEN File(Ladder(engine)[tierIdx], NChunks)
                    ELSE IF p \in taken THEN File(p[3], NChunks)
                    ELSE Absent]
    /\ attempts = <<>>
    /\ result = "pending"
    /\ lastError = NoError
    /\ retPath = <<>>
    /\ mediaReqs = 1
    /\ allPublished1 = TRUE
    /\ interrupted = FALSE
    /\ files1 = {}

RenameNext == \E tagged \in BOOLEAN : Finish(tagged)

SpecRename == RenameInit /\ [][RenameNext]_vars

(***************************************************************************)
(* C23: the tag-based rename never overwrites or removes a file that is    *)
(* already there; when the canonical name is taken it takes the smallest   *)
(* disambiguator i >= 1 whose name is free; afterwards the downloaded body *)
(* is at the returned path and nowhere else.                               *)
(***************************************************************************)
C23_RenameKeepsFiles ==
    [][(phase = "stream" /\ engine = "sa_dl" /\ result' = "done") =>
           LET src == OutPath(idx)
               tier == Ladder(engine)[tierIdx]
           IN  /\ \A p \in Paths \ {src} : Exists(fs[p]) => fs'[p] = fs[p]
               /\ fs'[retPath'] = fs[src]
               /\ FileSet(fs') = (FileSet(fs) \ {src}) \cup {retPath'}
               /\ retPath' # src =>
                      /\ ~Exists(fs[retPath'])
                      /\ \E k \in Disambiguators :
                             /\ retPath' = CanonPath(idx, tier, k)
                             /\ \A j \in 0..(k - 1) :
                                    Exists(fs[CanonPath(idx, tier, j)])]_vars

\* the canonical name and the first disambiguated one were taken: the body
\* went to the second disambiguated name and all three files are there
C23_Witness ==
    /\ result = "done"
    /\ \E t \in {"high", "low"} :
           /\ retPath = CanonPath(idx, t, 2)
           /\ \A k \in 0..2 : Complete(fs[CanonPath(idx, t, k)])
    /\ ~Exists(fs[OutPath(idx)])

(***************************************************************************)
(* Identifier extraction from a response body and endpoint discovery.      *)
(*                                                                         *)
(* A body is described by what the two phases of the extractor read in it: *)
(*   json     how json.loads(text) ends: "results_list" (an object whose   *)
(*            "results" value is a list), "results_scalar" (an object      *)
(*            whose "results" value cannot be iterated: null, a number),   *)
(*            "no_results" (any other JSON document), "invalid" (not       *)
(*            JSON: JSONDecodeError)                                       *)
(*   results  the elements of the results list, in document order: "rec"   *)
(*            (an object with a sermonID), "norec" (an object without one, *)
(*            or a string or list, for which the "in" test is False),      *)
(*            "scalar" (a number, null or boolean, for which the "in" test *)
(*            raises TypeError)                                            *)
(*   pathRefs the matches of /sermons/(\d+) in the text, in order          *)
(*   keyRefs  the matches of "sermonID":\s*"?(\d+)"? in the text, in order *)
(***************************************************************************)
BodyIds == 1..MaxRecs

ResultItems ==
    [kind : {"rec"}, id : BodyIds] \cup [kind : {"norec", "scalar"}, id : {0}]

RECURSIVE RecIds(_)
\* the sermonID values of the records of a results list, in document order;
\* they are also what the second pattern matches in the text of that list
RecIds(items) ==
    IF items = <<>> THEN <<>>
    ELSE IF Head(items).kind = "rec"
         THEN <<Head(items).id>> \o RecIds(Tail(items))
         ELSE RecIds(Tail(items))

Bodies ==
    {[json |-> "results_list", results |-> r, pathRefs |-> p,
      keyRefs |-> RecIds(r)] :
        r \in SeqsUpTo(ResultItems, MaxRecs), p \in SeqsUpTo(BodyIds, MaxRecs)}
    \cup [json : {"results_scalar", "no_results", "invalid"},
          results : {<<>>},
          pathRefs : SeqsUpTo(BodyIds, MaxRecs),
          keyRefs : SeqsUpTo(BodyIds, MaxRecs)]

RECURSIVE ResultsLoop(_, _)
\* for item in data["results"]: if "sermonID" in item: ids.append(...)
\* a TypeError of the "in" test leaves the loop and the function
ResultsLoop(items, acc) ==
    IF items = <<>> THEN [raised |-> FALSE, ids |-> acc]
    ELSE IF Head(items).kind = "scalar"
         THEN [raised |-> TRUE, ids |-> acc]
         ELSE ResultsLoop(Tail(items),
                          IF Head(items).kind = "rec"
                          THEN Append(acc, Head(items).id) ELSE acc)

\* phase 1 of the extractor: only json.JSONDecodeError is caught
StructuredPhase(b) ==
    CASE b.json = "results_list" -> ResultsLoop(b.results, <<>>)
      [] b.json = "results_scalar" -> [raised |-> TRUE, ids |-> <<>>]
      [] OTHER -> [raised |-> FALSE, ids |-> <<>>]

\* mutant: a fallback phase that finds nothing
FallbackPhase_Nothing(b) == <<>>

\* phase 2 of the extractor: the matches of the first pattern, then those of
\* the second
FallbackPhase(b) == b.pathRefs \o b.keyRefs

\* if not ids
NeedsFallback(collected) == collected = <<>>

\* extract_sermon_ids_from_node_response(text) as a whole: how the call ends,
\* the list it returns and whether phase 2 ran
ExtractFromBody(b) ==
    LET p1 == StructuredPhase(b)
    IN  IF p1.raised
        THEN [end |-> "raised", ids |-> <<>>, fallback |-> FALSE]
        ELSE LET fb == NeedsFallback(p1.ids)
                 collected == IF fb THEN p1.ids \o FallbackPhase(b) ELSE p1.ids
             IN  [end |-> "returned", ids |-> dedupe_ids(collected),
                  fallback |-> fb]

\* len(NODE_CANDIDATES)
NumCandidates == 3

\* what a probe can answer: a status (or a transport error) and, for a 200,
\* a body
ProbeResponses ==
    [status : {"200"}, body : Bodies]
    \cup [status : {"404", "500", "error"}, body : {<<>>}]

DiscInit ==
    /\ SideIdle
    /\ EnumIdle
    /\ JobIdle
    /\ AuthIdle
    /\ NameIdle
    /\ discPc = "probing"
    /\ cand = 1
    /\ base_url = 0
    /\ probeLog = <<>>
    /\ body = <<>>
    /\ ordered = <<>>
    /\ extractEnd = "none"
    /\ ranFallback = FALSE

\* if ids: return url
Qualifies(found) == found # <<>>

\* one iteration of the loop of discover_node_base: the candidate is probed;
\* an exception of the request, a 404 and any other non-200 status skip it;
\* on a 200 the extractor runs on the body (outside any try)
Probe(resp) ==
    /\ UNCHANGED <<enumVars, jobVars, authVars, nameVars,
                   sideVars>>
    /\ discPc = "probing"
    /\ IF resp.status # "200"
       THEN /\ probeLog' = Append(probeLog, [cand |-> cand, answer |-> resp.status])
            /\ cand' = cand + 1
            /\ discPc' = IF cand + 1 <= NumCandidates THEN "probing" ELSE "returned"
            /\ UNCHANGED <<base_url, body, ordered, extractEnd, ranFallback>>
       ELSE LET x == ExtractFromBody(resp.body)
            IN  /\ body' = resp.body
                /\ ordered' = x.ids
                /\ extractEnd' = x.end
                /\ ranFallback' = x.fallback
                /\ IF x.end = "raised"
                   THEN /\ probeLog' = Append(probeLog,
                                 [cand |-> cand, answer |-> "200_raised"])
                        /\ discPc' = "raised"
                        /\ UNCHANGED <<cand, base_url>>
                   ELSE IF Qualifies(x.ids)
                   THEN /\ probeLog' = Append(probeLog,
                                 [cand |-> cand, answer |-> "200_ids"])
                        /\ discPc' = "returned"
                        /\ base_url' = cand
                        /\ UNCHANGED cand
                   ELSE /\ probeLog' = Append(probeLog,
                                 [cand |-> cand, answer |-> "200_empty"])
                        /\ cand' = cand + 1
                        /\ discPc' = IF cand + 1 <= NumCandidates
                                     THEN "probing" ELSE "returned"
                        /\ UNCHANGED base_url

\* the loop runs while candidates are left and none was selected
DiscNext == discPc = "probing" /\ \E resp \in ProbeResponses : Probe(resp)

SpecDiscover == DiscInit /\ [][DiscNext]_vars

\* a probe was answered by a qualifying candidate
QualifyingAnswer(a) == a = "200_ids"

(***************************************************************************)
(* C11: discovery probes the candidates in list order, returns the first   *)
(* one that answers 200 with at least one identifier, probes nothing after *)
(* it, skips every candidate that answers 404 or another non-200 status,   *)
(* fails in transport or yields no identifier, and returns None exactly    *)
(* when no candidate qualifies.                                            *)
(***************************************************************************)
C11_FirstQualifying ==
    /\ discPc \in {"probing", "returned"}
    /\ \A i \in 1..Len(probeLog) :
           /\ probeLog[i].cand = i
           /\ i < Len(probeLog) => ~QualifyingAnswer(probeLog[i].answer)
    /\ discPc = "probing" =>
           /\ cand = Len(probeLog) + 1
           /\ \A i \in 1..Len(probeLog) : ~QualifyingAnswer(probeLog[i].answer)
    /\ discPc = "returned" =>
           /\ base_url # 0 =>
                  /\ base_url = Len(probeLog)
                  /\ QualifyingAnswer(probeLog[base_url].answer)
                  /\ ordered # <<>>
           /\ base_url = 0 =>
                  /\ Len(probeLog) = NumCandidates
                  /\ \A i \in 1..Len(probeLog) :
                         ~QualifyingAnswer(probeLog[i].answer)

\* position of the first occurrence of x in the sequence s
FirstIndex(s, x) == CHOOSE i \in 1..Len(s) : s[i] = x /\ \A j \in 1..(i-1) : s[j] # x

\* out lists every value of refs once, in the order of first occurrence
ExactlyInOrder(out, refs) ==
    /\ NoDuplicates(out)
    /\ SeqToSet(out) = SeqToSet(refs)
    /\ \A i, j \in 1..Len(out) :
           i < j => FirstIndex(refs, out[i]) < FirstIndex(refs, out[j])

\* every element of the results list is a record with an identifier
AllRecords(items) == \A i \in 1..Len(items) : items[i].kind = "rec"

(***************************************************************************)
(* C17: for a structured body whose results list holds identifier records  *)
(* the extractor returns exactly their identifiers, once each, in document *)
(* order, from the structured phase; for a non-structured body holding     *)
(* only path-style references it returns exactly those identifiers, once   *)
(* each, in document order, from the fallback phase.                       *)
(***************************************************************************)
C17_ExtractsExactly ==
    /\ (body # <<>> /\ body.json = "results_list" /\ body.results # <<>>
        /\ AllRecords(body.results)) =>
           /\ extractEnd = "returned"
           /\ ~ranFallback
           /\ ExactlyInOrder(ordered, RecIds(body.results))
    /\ (body # <<>> /\ body.json = "invalid" /\ body.keyRefs = <<>>) =>
           /\ extractEnd = "returned"
           /\ ranFallback
           /\ ExactlyInOrder(ordered, body.pathRefs)

\* a structured body with two distinct records, in the order 2, 1, and a
\* path reference besides, was extracted by the structured phase
C17_WitnessStructured ==
    /\ body # <<>>
    /\ body.json = "results_list"
    /\ RecIds(body.results) = <<2, 1>>
    /\ AllRecords(body.results)
    /\ body.pathRefs # <<>>
    /\ ordered = <<2, 1>>
    /\ ~ranFallback

(***************************************************************************)
(* C18: for every body the extractor returns a list without raising, and   *)
(* its fallback phase runs exactly when the structured phase failed or     *)
(* collected nothing.                                                      *)
(***************************************************************************)
C18_NeverRaises ==
    extractEnd # "none" =>
        /\ extractEnd = "returned"
        /\ ranFallback <=> (body.json # "results_list"
                            \/ RecIds(body.results) = <<>>)
        /\ ranFallback => ExactlyInOrder(ordered, body.pathRefs \o body.keyRefs)

(***************************************************************************)
(* File name sanitizers: slugify (sa_speaker.py, sa_broadcaster.py),       *)
(* sanitize_filename (sermonaudio.py) and sanitize_filename                *)
(* (old_sermonaudio.py), and the file names built from their output.       *)
(* A string is a sequence of characters.                                   *)
(***************************************************************************)
\* the characters the specification reserves: < > : " / \ | ? *
ReservedChars == {"<", ">", ":", "\"", "/", "\\", "|", "?", "*"}

\* the alphabet of the inputs: the reserved characters, a letter, a blank
\* and a dot
NameChars == ReservedChars \cup {"a", " ", "."}

\* filename[:251]
TruncateAt == 251

\* the longest file name the file system takes
SafeMax == 255

\* ".mp3"
Mp3Ext == <<".", "m", "p", "3">>

\* c repeated n times
Fill(c, n) == [i \in 1..n |-> c]

\* the lengths of the run that ends an input: none, and runs around the
\* truncation point and the maximum
FillLengths == {0, TruncateAt, SafeMax + 1}

\* the inputs of the sanitizers
Names ==
    {prefix \o Fill(c, n) : prefix \in SeqsUpTo(NameChars, MaxNameLen),
                            c \in {"a", ":"}, n \in FillLengths}

\* a position that holds no character
NoChar == "<none>"

\* the string without the positions that hold no character
Compact(str) == SelectSeq(str, LAMBDA c : c # NoChar)

RECURSIVE SkipFromLeft(_, _, _)
\* the first position at or after i that does not hold c, Len + 1 if none
SkipFromLeft(str, c, i) ==
    IF i > Len(str) \/ str[i] # c THEN i ELSE SkipFromLeft(str, c, i + 1)

RECURSIVE SkipFromRight(_, _, _)
\* the last position at or before i that does not hold c, 0 if none
SkipFromRight(str, c, i) ==
    IF i < 1 \/ str[i] # c THEN i ELSE SkipFromRight(str, c, i - 1)

\* str.strip(): no blank at either end
Strip(str) ==
    SubSeq(str, SkipFromLeft(str, " ", 1), SkipFromRight(str, " ", Len(str)))

\* str.rstrip("."): no dot at the end
RStripDots(str) == SubSeq(str, 1, SkipFromRight(str, ".", Len(str)))

\* name.replace(":", " -")
ReplaceColons(str) ==
    Compact([j \in 1..(2 * Len(str)) |->
               LET c == str[(j + 1) \div 2]
               IN  IF c = ":" THEN (IF j % 2 = 1 THEN " " ELSE "-")
                   ELSE (IF j % 2 = 1 THEN c ELSE NoChar)])

\* mutant: a character class without the vertical bar
SlugifyRemoves_NoBar(c) == c \in {"\\", "/", "*", "?", "\"", "<", ">"}

\* the character class [\\/*?\"<>|] of slugify
SlugifyRemoves(c) == c \in {"\\", "/", "*", "?", "\"", "<", ">", "|"}

\* re.sub(r"\s+", " ", name): a blank that follows a blank goes
CollapseBlanks(str) ==
    Compact([i \in 1..Len(str) |->
               IF str[i] = " " /\ i > 1 /\ str[i - 1] = " "
               THEN NoChar ELSE str[i]])

Untitled == <<"u", "n", "t", "i", "t", "l", "e", "d">>

\* slugify(name) of sa_speaker.py and sa_broadcaster.py
slugify(str) ==
    IF str = <<>> THEN Untitled
    ELSE LET stripped == Strip(str)
             dashed == ReplaceColons(stripped)
             cleaned == SelectSeq(dashed, LAMBDA c : ~SlugifyRemoves(c))
             collapsed == CollapseBlanks(cleaned)
         IN  IF collapsed = <<>> THEN Untitled ELSE collapsed

\* the character class [<>:"/\\|?*] of both sanitize_filename functions
SanitizeMatches(c) == c \in {"<", ">", ":", "\"", "/", "\\", "|", "?", "*"}

Download == <<"d", "o", "w", "n", "l", "o", "a", "d">>

\* sanitize_filename(name) of sermonaudio.py
sanitize_filename(str) ==
    LET replaced == [i \in 1..Len(str) |->
                        IF SanitizeMatches(str[i]) THEN "_" ELSE str[i]]
        trimmed == RStripDots(Strip(replaced))
    IN  IF trimmed = <<>> THEN Download ELSE trimmed

\* sanitize_filename(filename) of old_sermonaudio.py, which appends the
\* extension itself
old_sanitize_filename(str) ==
    LET removed == SelectSeq(str, LAMBDA c : ~SanitizeMatches(c))
        stripped == Strip(removed)
    IN  SubSeq(stripped, 1, IF Len(stripped) < TruncateAt
                            THEN Len(stripped) ELSE TruncateAt) \o Mp3Ext

Sanitizers == {"slugify", "sanitize_filename", "old_sanitize_filename"}

\* the file name a caller builds: slugify(title) + ".mp3" in
\* download_sermon_audio, f"{base}{ext}" in download_file of sermonaudio.py,
\* the value of sanitize_filename itself in old_sermonaudio.py
FileNameOf(which, str) ==
    CASE which = "slugify" -> slugify(str) \o Mp3Ext
      [] which = "sanitize_filename" -> sanitize_filename(str) \o Mp3Ext
      [] which = "old_sanitize_filename" -> old_sanitize_filename(str)

NameInit ==
    /\ SideIdle
    /\ EnumIdle
    /\ JobIdle
    /\ AuthIdle
    /\ DiscIdle
    /\ sanitizer \in Sanitizers
    /\ name \in Names
    /\ outName = <<>>
    /\ namePc = "call"

\* the sanitizer is applied and the file name is built
Sanitize ==
    /\ UNCHANGED <<enumVars, jobVars, authVars, discVars,
                   sideVars>>
    /\ namePc = "call"
    /\ outName' = FileNameOf(sanitizer, name)
    /\ namePc' = "done"
    /\ UNCHANGED <<sanitizer, name>>

NameNext == Sanitize

SpecName == NameInit /\ [][NameNext]_vars

(***************************************************************************)
(* C19: whatever the input, the output of each sanitizer, and so the file  *)
(* name built from it, holds none of the reserved characters               *)
(* < > : " / \ | ? *.                                                      *)
(***************************************************************************)
C19_NoReservedChars ==
    namePc = "done" =>
        \A i \in 1..Len(outName) : outName[i] \notin ReservedChars

\* slugify was applied to a name that holds a vertical bar and a letter
C19_Witness ==
    /\ namePc = "done"
    /\ sanitizer = "slugify"
    /\ \E i \in 1..Len(name) : name[i] = "|"
    /\ \E i \in 1..Len(name) : name[i] = "a"
    /\ outName # Untitled \o Mp3Ext

(***************************************************************************)
(* C20: whatever the length of the input, the file name built from the     *)
(* sanitized name and the fixed extension is at most 255 characters long. *)
(***************************************************************************)
C20_LengthBounded ==
    namePc = "done" => Len(outName) <= SafeMax

(***************************************************************************)
(* Credential handling: sa_auth.get_api_key with validate_key and          *)
(* fetch_new_key, called directly or through a driver's ensure_api_key,    *)
(* after which the driver probes the enumeration endpoints.                *)
(***************************************************************************)
\* tokens that match ^[A-F0-9-]{30,}$
WellFormedTokens == {"K1", "K2"}
\* a token the homepage can embed that apiKey:"([A-F0-9-]+)" extracts and
\* that is shorter than the 30 characters the format check asks for
ShortToken == "K-SHORT"
\* what fetch_new_key can extract from the homepage
FetchableTokens == WellFormedTokens \cup {ShortToken}
\* the key hardcoded in ensure_api_key
FallbackKey == "K-FALLBACK"
\* what auth.txt can hold: nothing (no file), an empty string, a string that
\* fails the format check, or a well-formed token
StoreValues == {"missing", "", "malformed"} \cup WellFormedTokens

\* mutant: any non-empty stored string passes the format check
FormatOk_Any(tok) == TRUE

\* re.match(r"^[A-F0-9-]{30,}$", key)
FormatOk(tok) == tok \in WellFormedTokens

\* mutant: a probe that could not be sent counts as a valid key
ProbeSaysValid_FailOpen(answer) == answer \in {"200", "error"}

\* validate_key: True on HTTP 200, False on any other status and on any
\* exception of the request
ProbeSaysValid(answer) == answer = "200"

\* mutant: no fallback key when get_api_key gave none
KeyOrFallback_None(k) == k

\* if not key: key = <hardcoded key>
KeyOrFallback(k) == IF k \in {"none", ""} THEN FallbackKey ELSE k

AuthInit ==
    /\ SideIdle
    /\ EnumIdle
    /\ JobIdle
    /\ DiscIdle
    /\ NameIdle
    /\ caller \in {"ensure_api_key", "direct"}
    /\ force_refresh \in BOOLEAN
    /\ caller = "ensure_api_key" => ~force_refresh
    /\ store \in StoreValues
    /\ authPc = "start"
    /\ key = "none"
    /\ cached = store
    /\ probeResult = "none"
    /\ probes = 0
    /\ fetches = 0
    /\ source = "none"
    /\ returned = "none"
    /\ saved = "none"
    /\ sessionKey = "unset"
    /\ discoveryProbes = 0

\* mutant: the cache is consulted even when a refresh is forced
SkipsCache_IgnoresForce(force, st) == st = "missing"

\* the negation of: if not force_refresh and os.path.exists(API_KEY_FILE)
SkipsCache(force, st) == force \/ st = "missing"

\* get_api_key up to the liveness check: read auth.txt unless forced or
\* missing, drop an empty or ill-formed string
ReadCache(readOk) ==
    /\ UNCHANGED <<enumVars, jobVars, discVars, nameVars,
                   sideVars>>
    /\ authPc = "start"
    /\ SkipsCache(force_refresh, store) => readOk
    /\ IF SkipsCache(force_refresh, store) \/ ~readOk \/ store = ""
       THEN /\ key' = "none"
            /\ authPc' = "fetch"
       ELSE IF ~FormatOk(store)
       THEN \* "Stored key has invalid format."
            /\ key' = "none"
            /\ authPc' = "fetch"
       ELSE /\ key' = store
            /\ authPc' = "validate"
    /\ UNCHANGED <<caller, force_refresh, store, cached, probeResult, probes,
                   fetches, source, returned, saved, sessionKey,
                   discoveryProbes>>

\* validate_key(key) and the return of the cached key when it is valid
ValidateKey(answer) ==
    /\ UNCHANGED <<enumVars, jobVars, discVars, nameVars,
                   sideVars>>
    /\ authPc = "validate"
    /\ probes' = probes + 1
    /\ probeResult' = answer
    /\ IF ProbeSaysValid(answer)
       THEN /\ returned' = key
            /\ source' = "cache"
            /\ authPc' = "returned"
            /\ UNCHANGED key
       ELSE \* "Stored key is expired or invalid."
            /\ key' = "none"
            /\ authPc' = "fetch"
            /\ UNCHANGED <<returned, source>>
    /\ UNCHANGED <<caller, force_refresh, store, cached, fetches, saved,
                   sessionKey, discoveryProbes>>

\* what the homepage fetch can give: a page with an embedded token, a page
\* without one, a refused status, a transport error
PageResults ==
    [kind : {"page"}, token : FetchableTokens]
    \cup [kind : {"nokey", "http", "error"}, token : {"none"}]

\* mutant: the fetch goes on whatever the homepage request gave
FetchFails_Never(homepage) == FALSE

\* the raise of fetch_new_key: the request failed (raise_for_status
\* included) or the page holds no apiKey:"..." literal
FetchFails(homepage) == homepage.kind # "page"

\* fetch_new_key up to the extraction of the key
FetchNewKey(homepage) ==
    /\ UNCHANGED <<enumVars, jobVars, discVars, nameVars,
                   sideVars>>
    /\ authPc = "fetch"
    /\ fetches' = fetches + 1
    /\ IF ~FetchFails(homepage)
       THEN /\ key' = homepage.token
            /\ authPc' = "save"
       ELSE \* raise (the request's exception, or ValueError)
            /\ key' = "none"
            /\ authPc' = "raised"
    /\ UNCHANGED <<caller, force_refresh, store, cached, probeResult, probes,
                   source, returned, saved, sessionKey, discoveryProbes>>

\* the write of auth.txt in fetch_new_key and the return of the key; a
\* failed write is only warned about: open() failed (file untouched) or
\* write() failed after open() truncated the file
SaveKey(outcome) ==
    /\ UNCHANGED <<enumVars, jobVars, discVars, nameVars,
                   sideVars>>
    /\ authPc = "save"
    /\ saved' = outcome
    /\ store' = CASE outcome = "ok" -> key
                  [] outcome = "open_failed" -> store
                  [] outcome = "write_failed" -> ""
    /\ returned' = key
    /\ source' = "fetch"
    /\ authPc' = "returned"
    /\ UNCHANGED <<caller, force_refresh, key, cached, probeResult, probes,
                   fetches, sessionKey, discoveryProbes>>

\* the rest of ensure_api_key: the exception of get_api_key is caught, a
\* missing key is replaced by the hardcoded one, the header is set
EnsureApiKey ==
    /\ UNCHANGED <<enumVars, jobVars, discVars, nameVars,
                   sideVars>>
    /\ caller = "ensure_api_key"
    /\ authPc \in {"returned", "raised"}
    /\ sessionKey' = KeyOrFallback(IF authPc = "returned" THEN returned
                                   ELSE "none")
    /\ authPc' = "session_set"
    /\ UNCHANGED <<caller, force_refresh, store, key, cached, probeResult,
                   probes, fetches, source, returned, saved, discoveryProbes>>

\* discover_node_base sends its first probe with the session's headers
ProbeEndpoint ==
    /\ UNCHANGED <<enumVars, jobVars, discVars, nameVars,
                   sideVars>>
    /\ authPc = "session_set"
    /\ discoveryProbes' = discoveryProbes + 1
    /\ authPc' = "probing"
    /\ UNCHANGED <<caller, force_refresh, store, key, cached, probeResult,
                   probes, fetches, source, returned, saved, sessionKey>>

AuthNext ==
    \/ \E readOk \in BOOLEAN : ReadCache(readOk)
    \/ \E answer \in {"200", "401", "500", "error"} : ValidateKey(answer)
    \/ \E homepage \in PageResults : FetchNewKey(homepage)
    \/ \E outcome \in {"ok", "open_failed", "write_failed"} : SaveKey(outcome)
    \/ EnsureApiKey
    \/ ProbeEndpoint

SpecAuth == AuthInit /\ [][AuthNext]_vars

\* get_api_key could not obtain a credential: it raised
AuthFailed == authPc = "raised" \/ (fetches > 0 /\ returned = "none"
                                    /\ authPc \in {"session_set", "probing"})

(***************************************************************************)
(* C8: get_api_key(force_refresh=False) returns the cached token only if   *)
(* it passed the format check and the validation probe answered 200; after *)
(* any other probe answer, or a probe that failed in transport, a returned *)
(* token comes from a fresh fetch.                                         *)
(***************************************************************************)
C8_FailClosed ==
    /\ source = "cache" =>
           /\ ~force_refresh
           /\ returned = cached
           /\ returned \in WellFormedTokens
           /\ probeResult = "200"
           /\ fetches = 0
    /\ (returned # "none" /\ probeResult \notin {"none", "200"}) =>
           /\ source = "fetch"
           /\ fetches = 1

\* the probe failed in transport and the token returned was fetched afresh
C8_Witness ==
    /\ authPc = "returned"
    /\ cached \in WellFormedTokens
    /\ probeResult = "error"
    /\ source = "fetch"
    /\ returned \in WellFormedTokens

\* get_api_key was called on a cache holding an ill-formed token and returned
C9_MalformedReturned ==
    /\ cached = "malformed"
    /\ ~force_refresh
    /\ authPc = "returned"

(***************************************************************************)
(* C9 as stated: with an ill-formed token in the cache, get_api_key issues *)
(* no validation request, fetches afresh, and when it returns the store    *)
(* holds exactly the returned token.                                       *)
(***************************************************************************)
C9_PersistedBeforeReturn ==
    C9_MalformedReturned =>
        /\ probes = 0
        /\ fetches = 1
        /\ source = "fetch"
        /\ store = returned

(***************************************************************************)
(* C9 amended: with an ill-formed token in the cache, get_api_key issues   *)
(* no validation request and fetches afresh; when it returns, the store    *)
(* holds exactly the returned token if the write of auth.txt succeeded,    *)
(* and otherwise the token is returned all the same while the store is     *)
(* left as the failed write left it (untouched, or empty).                 *)
(***************************************************************************)
C9_PersistedUnlessWriteFails ==
    C9_MalformedReturned =>
        /\ probes = 0
        /\ fetches = 1
        /\ source = "fetch"
        /\ returned \in FetchableTokens
        /\ saved = "ok" => store = returned
        /\ saved = "open_failed" => store = cached
        /\ saved = "write_failed" => store = ""

\* the ill-formed token was dropped and the fetched one saved and returned
C9_Witness ==
    /\ C9_MalformedReturned
    /\ saved = "ok"
    /\ store = returned
    /\ returned \in WellFormedTokens

(***************************************************************************)
(* C10 as stated: when no credential can be obtained the job aborts: no    *)
(* endpoint probe is issued.                                               *)
(***************************************************************************)
C10_AbortsWithoutCredential ==
    AuthFailed => (discoveryProbes = 0 /\ authPc = "raised")

(***************************************************************************)
(* C10 amended: when no credential can be obtained, a job driver does not  *)
(* abort: ensure_api_key catches the failure, sets the hardcoded fallback  *)
(* key as the session's X-API-Key and the job goes on to probe the         *)
(* endpoints with it; no probe is issued before a key is set.              *)
(***************************************************************************)
C10_FallbackKeyThenProbe ==
    /\ discoveryProbes > 0 => sessionKey # "unset"
    /\ (AuthFailed /\ authPc \in {"session_set", "probing"}) =>
           sessionKey = FallbackKey
    /\ (~AuthFailed /\ authPc \in {"session_set", "probing"}) =>
           sessionKey = returned

\* the fetch failed, the fallback key was set and an endpoint was probed
C10_Witness ==
    /\ AuthFailed
    /\ caller = "ensure_api_key"
    /\ sessionKey = FallbackKey
    /\ discoveryProbes > 0

C35_FailedFetchLeavesStore ==
    /\ AuthFailed =>
           /\ returned = "none"
           /\ key = "none"
           /\ store = cached
           /\ saved = "none"
           /\ fetches = 1
    /\ source = "fetch" => returned \in FetchableTokens
    /\ saved # "none" => returned \in FetchableTokens

\* a valid token was cached, its probe was refused, the fetch failed: the
\* call raised and the cached token is still in the store
C35_Witness ==
    /\ authPc = "raised"
    /\ cached \in WellFormedTokens
    /\ probeResult = "401"
    /\ fetches = 1
    /\ returned = "none"
    /\ store = cached

(***************************************************************************)
(* Display names and titles read from a scraped page.                      *)
(*                                                                         *)
(* A text is a sequence of characters; "SermonAudio" stands for that word. *)
(* A page is described by how its fetch ends and by what the parser finds  *)
(* in it: the text of an element, or Missing when the element is not in    *)
(* the page.                                                               *)
(***************************************************************************)
\* the text of the first h1 has at most MaxH1Len characters
MaxH1Len == 2
\* the string of the title element has at most MaxTitleLen characters
MaxTitleLen == 3

Missing == <<"<missing>">>
\* <meta property="og:title"> without a content attribute
NoContent == <<"<no content>">>

H1Texts == SeqsUpTo({"a", " ", "#"}, MaxH1Len)
TitleTexts == SeqsUpTo({"a", " ", "|", "SermonAudio"}, MaxTitleLen)

NameResolvers == {"sa_speaker.get_speaker_name",
                  "sa_broadcaster.get_broadcaster_name"}
TitleResolvers == {"fetch_sermon_page", "old_sermonaudio.fetch_sermon_data"}

\* what an element found by one strategy of fetch_sermon_data can hold
StrategyTexts(c) == {Missing, <<>>, <<" ">>, <<c, " ">>}

\* the pages a resolver can be given. title_name is what group 1 of
\* \|\s*(.+?)\s*\|\s*SermonAudio holds after strip(), Missing when there is
\* no title string or no match. fetch_html raises for a status that is not
\* 2xx; requests.get in fetch_sermon_data is not followed by a status test
Docs(r) ==
    IF r \in NameResolvers
    THEN [fetch : {"ok"}, h1 : H1Texts \cup {Missing},
          title_name : {Missing, <<>>, <<"a">>}]
         \cup [fetch : {"status", "error"}, h1 : {Missing},
               title_name : {Missing}]
    ELSE IF r = "fetch_sermon_page"
    THEN [fetch : {"ok"}, h1 : H1Texts \cup {Missing},
          title : TitleTexts \cup {Missing}]
         \cup [fetch : {"status", "error"}, h1 : {Missing},
               title : {Missing}]
    ELSE [fetch : {"ok"},
          title_element : StrategyTexts("e"),
          og_title : StrategyTexts("o") \cup {NoContent},
          title_tag : StrategyTexts("t"),
          h1_tag : StrategyTexts("h"),
          class_title : StrategyTexts("c")]
         \cup [fetch : {"error"}, title_element : {Missing},
               og_title : {Missing}, title_tag : {Missing},
               h1_tag : {Missing}, class_title : {Missing}]

\* the text of an element, the empty text when it is missing
TextOf(el) == IF el = Missing THEN <<>> ELSE el

\* re.sub(r"^#", "", name)
DropHash(str) == IF str # <<>> /\ str[1] = "#" THEN Tail(str) ELSE str

\* \s*\|\s*SermonAudio matches at position i of str (.*$ takes the rest)
SiteSuffixAt(str, i) ==
    \E j \in i..Len(str) : \E k \in (j + 1)..Len(str) :
        /\ \A x \in i..(j - 1) : str[x] = " "
        /\ str[j] = "|"
        /\ \A x \in (j + 1)..(k - 1) : str[x] = " "
        /\ str[k] = "SermonAudio"

\* re.sub(r"\s*\|\s*SermonAudio.*$", "", t): the text before the leftmost
\* match
RemoveSiteSuffix(str) ==
    IF \E i \in 1..Len(str) : SiteSuffixAt(str, i)
    THEN LET first == CHOOSE i \in 1..Len(str) :
                          /\ SiteSuffixAt(str, i)
                          /\ \A j \in 1..(i - 1) : ~SiteSuffixAt(str, j)
         IN  SubSeq(str, 1, first - 1)
    ELSE str

SpeakerPlaceholder == <<"Speaker <id>">>
BroadcasterPlaceholder == <<"Broadcaster <id>">>
UntitledSermon == <<"Untitled Sermon">>

Placeholder(r) ==
    CASE r = "sa_speaker.get_speaker_name" -> SpeakerPlaceholder
      [] r = "sa_broadcaster.get_broadcaster_name" -> BroadcasterPlaceholder
      [] OTHER -> UntitledSermon

\* the body of get_speaker_name and of get_broadcaster_name once the page is
\* there: the h1 text, else the middle part of the title, else the
\* placeholder
NameFromPage(r, d) ==
    IF d.h1 # Missing /\ Strip(d.h1) # <<>>
    THEN Strip(DropHash(Strip(d.h1)))
    ELSE IF d.title_name # Missing THEN d.title_name
    ELSE Placeholder(r)

\* mutant: the title element is read before the h1
fetch_sermon_page_TitleFirst(d) ==
    IF d.title # Missing /\ d.title # <<>>
       /\ RemoveSiteSuffix(Strip(d.title)) # <<>>
    THEN RemoveSiteSuffix(Strip(d.title))
    ELSE IF d.h1 # Missing /\ Strip(d.h1) # <<>> THEN Strip(d.h1)
    ELSE UntitledSermon

\* the title fetch_sermon_page returns
fetch_sermon_page(d) ==
    IF d.h1 # Missing /\ Strip(d.h1) # <<>>
    THEN Strip(d.h1)
    ELSE IF d.title # Missing /\ d.title # <<>>
    THEN LET t == RemoveSiteSuffix(Strip(d.title))
         IN  IF t # <<>> THEN t ELSE UntitledSermon
    ELSE UntitledSermon

\* the title fetch_sermon_data returns: each "if not title" tries the next
\* strategy; the og:title content is taken as it is
fetch_sermon_data(d) ==
    LET t1 == Strip(TextOf(d.title_element))
        t2 == IF t1 # <<>> THEN t1 ELSE TextOf(d.og_title)
        t3 == IF t2 # <<>> THEN t2 ELSE Strip(TextOf(d.title_tag))
        t4 == IF t3 # <<>> THEN t3 ELSE Strip(TextOf(d.h1_tag))
        t5 == IF t4 # <<>> THEN t4 ELSE Strip(TextOf(d.class_title))
    IN  IF t5 # <<>> THEN t5 ELSE UntitledSermon

\* get_broadcaster_name wraps its body in try / except Exception;
\* get_speaker_name and the title functions do not
CatchesFetchError(r) == r = "sa_broadcaster.get_broadcaster_name"

\* the call ends with an exception: the fetch failed, or meta_title['content']
\* is read (no earlier title) on an element without that attribute
Raises(r, d) ==
    \/ d.fetch # "ok" /\ ~CatchesFetchError(r)
    \/ /\ r = "old_sermonaudio.fetch_sermon_data"
       /\ d.fetch = "ok"
       /\ Strip(TextOf(d.title_element)) = <<>>
       /\ d.og_title = NoContent

MetaInit ==
    /\ RefreshIdle
    /\ TitleIdle
    /\ EnumIdle
    /\ JobIdle
    /\ AuthIdle
    /\ DiscIdle
    /\ NameIdle
    /\ SeriesIdle
    /\ RaceIdle
    /\ KeyIdle
    /\ resolver \in NameResolvers \cup TitleResolvers
    /\ doc \in Docs(resolver)
    /\ metaPc = "call"
    /\ metaOut = <<>>

\* the call of the resolver
Resolve ==
    /\ UNCHANGED <<coreVars, seriesVars, raceVars, keyVars,
                   refreshVars, titleVars>>
    /\ metaPc = "call"
    /\ IF Raises(resolver, doc)
       THEN /\ metaPc' = "raised"
            /\ metaOut' = <<>>
       ELSE /\ metaPc' = "returned"
            /\ metaOut' =
                   IF resolver \in NameResolvers
                   THEN IF doc.fetch = "ok" THEN NameFromPage(resolver, doc)
                        ELSE Placeholder(resolver)
                   ELSE IF resolver = "fetch_sermon_page"
                   THEN fetch_sermon_page(doc)
                   ELSE fetch_sermon_data(doc)
    /\ UNCHANGED <<resolver, doc>>

\* the caller after the call: main() calls the name resolver outside any
\* try, so its exception ends the job; with a returned name the job goes on
\* to the enumeration (a title: the download step goes on, or raises)
CallerContinues ==
    /\ UNCHANGED <<coreVars, seriesVars, raceVars, keyVars,
                   refreshVars, titleVars>>
    /\ metaPc \in {"returned", "raised"}
    /\ metaPc' = IF metaPc = "returned" THEN "proceeding" ELSE "aborted"
    /\ UNCHANGED <<resolver, doc, metaOut>>

MetaNext == Resolve \/ CallerContinues

SpecMeta == MetaInit /\ [][MetaNext]_vars

(***************************************************************************)
(* C25: display-name resolution is best-effort for every owner kind: when  *)
(* the fetch of the owner's page fails, the resolver returns the           *)
(* placeholder "Speaker <id>" / "Broadcaster <id>" and the job proceeds.   *)
(***************************************************************************)
C25_NameBestEffort ==
    (resolver \in NameResolvers /\ metaPc # "call" /\ doc.fetch # "ok") =>
        /\ metaOut = Placeholder(resolver)
        /\ metaPc \in {"returned", "proceeding"}

\* the strategies of a title resolver in priority order, each with the text
\* it yields on the page
TitleStrategies ==
    IF resolver = "fetch_sermon_page"
    THEN <<Strip(TextOf(doc.h1)),
           RemoveSiteSuffix(Strip(TextOf(doc.title)))>>
    ELSE <<Strip(TextOf(doc.title_element)),
           TextOf(doc.og_title),
           Strip(TextOf(doc.title_tag)),
           Strip(TextOf(doc.h1_tag)),
           Strip(TextOf(doc.class_title))>>

MaxSeriesRefs == 2

\* what fetch_text can give for one URL: the text, described by the matches
\* of /sermons/(\d+) in it, or an exception
SeriesTexts ==
    [fetch : {"ok"}, refs : SeqsUpTo(Ids, MaxSeriesRefs)]
    \cup [fetch : {"error"}, refs : {<<>>}]

\* extract_sermon_ids_from_series_html and extract_sermon_ids_from_feed
extract_sermon_ids_from_series_html(refs) == dedupe_ids(findall_sermon_ids(refs))
extract_sermon_ids_from_feed(refs) == dedupe_ids(findall_sermon_ids(refs))

\* fetch_series_feed returns None on any exception, and "if feed_xml" then
\* skips the extraction
FeedIds(feed) ==
    IF feed.fetch = "ok" THEN extract_sermon_ids_from_feed(feed.refs)
    ELSE <<>>

\* mutant: the HTML listing is preferred to the feed
UsesFeed_HtmlFirst(feed_ids, html_ids) == html_ids = <<>>

\* "if not sermon_ids" after the feed: the HTML listing is the fallback
UsesFeed(feed_ids, html_ids) == feed_ids # <<>>

SeriesInit ==
    /\ RefreshIdle
    /\ TitleIdle
    /\ EnumIdle
    /\ JobIdle
    /\ AuthIdle
    /\ DiscIdle
    /\ NameIdle
    /\ MetaIdle
    /\ RaceIdle
    /\ KeyIdle
    /\ seriesHtml \in SeriesTexts
    /\ seriesFeed \in SeriesTexts
    /\ seriesPc = "start"
    /\ sermon_ids = <<>>
    /\ listSource = "none"
    /\ feedFetched = FALSE
    /\ seriesDownloads = 0

\* html = fetch_series_html(series_id): not inside any try
FetchSeriesHtml ==
    /\ UNCHANGED <<coreVars, metaVars, raceVars, keyVars,
                   refreshVars, titleVars>>
    /\ seriesPc = "start"
    /\ seriesPc' = IF seriesHtml.fetch = "ok" THEN "page_fetched" ELSE "raised"
    /\ UNCHANGED <<seriesHtml, seriesFeed, sermon_ids, listSource,
                   feedFetched, seriesDownloads>>

\* step 3 of download_series: the feed first, the page's references when
\* the feed gave nothing, sys.exit(1) when both gave nothing
BuildList ==
    /\ UNCHANGED <<coreVars, metaVars, raceVars, keyVars,
                   refreshVars, titleVars>>
    /\ seriesPc = "page_fetched"
    /\ feedFetched' = TRUE
    /\ LET feed_ids == FeedIds(seriesFeed)
           html_ids == extract_sermon_ids_from_series_html(seriesHtml.refs)
       IN  IF UsesFeed(feed_ids, html_ids)
           THEN /\ sermon_ids' = feed_ids
                /\ listSource' = "feed"
           ELSE /\ sermon_ids' = html_ids
                /\ listSource' = "html"
    /\ seriesPc' = IF sermon_ids' = <<>> THEN "exited" ELSE "listed"
    /\ UNCHANGED <<seriesHtml, seriesFeed, seriesDownloads>>

\* one pass of the download loop
DownloadListed ==
    /\ UNCHANGED <<coreVars, metaVars, raceVars, keyVars,
                   refreshVars, titleVars>>
    /\ seriesPc = "listed"
    /\ seriesDownloads' = seriesDownloads + 1
    /\ seriesPc' = IF seriesDownloads' = Len(sermon_ids) THEN "finished"
                   ELSE "listed"
    /\ UNCHANGED <<seriesHtml, seriesFeed, sermon_ids, listSource,
                   feedFetched>>

SeriesNext == FetchSeriesHtml \/ BuildList \/ DownloadListed

SpecSeries == SeriesInit /\ [][SeriesNext]_vars

(***************************************************************************)
(* C24: once the feed has been requested, the job's list is the feed's     *)
(* identifiers whenever the feed fetch succeeded and yielded at least one; *)
(* the HTML listing's identifiers are used exactly when the feed fetch     *)
(* failed or yielded none; when both yield none the job ends without any   *)
(* download. (The series page is fetched first: when that fetch raises,    *)
(* the feed is never requested and nothing is downloaded.)                 *)
(***************************************************************************)
C24_FeedPreferred ==
    /\ feedFetched =>
           LET feedOk == seriesFeed.fetch = "ok" /\ seriesFeed.refs # <<>>
               feedList == dedupe_ids(seriesFeed.refs)
               htmlList == dedupe_ids(seriesHtml.refs)
           IN  /\ feedOk => (listSource = "feed" /\ sermon_ids = feedList)
               /\ listSource = "html" <=> ~feedOk
               /\ listSource = "html" => sermon_ids = htmlList
               /\ (~feedOk /\ htmlList = <<>>) =>
                      (seriesPc = "exited" /\ seriesDownloads = 0)
               /\ seriesDownloads <= Len(sermon_ids)
    /\ ~feedFetched => (sermon_ids = <<>> /\ seriesDownloads = 0)

\* both sources list sermons: the job downloaded the feed's list
C24_Witness ==
    /\ seriesPc = "finished"
    /\ seriesFeed.refs = <<2, 2>>
    /\ seriesHtml.refs = <<3, 1>>
    /\ listSource = "feed"
    /\ sermon_ids = <<2>>
    /\ seriesDownloads = 1

(***************************************************************************)
(* C40: whenever the feed is reachable and yields at least one identifier, *)
(* the series job goes on to download those items whether or not the       *)
(* series page could be fetched: it is never ended by the page fetch.      *)
(***************************************************************************)
C40_FeedSufficesWithoutPage ==
    (seriesFeed.fetch = "ok" /\ FeedIds(seriesFeed) # <<>>) =>
        /\ seriesPc \notin {"raised", "exited"}
        /\ seriesPc \in {"listed", "finished"} =>
               sermon_ids = FeedIds(seriesFeed)

(***************************************************************************)
(* Two job threads of the GUI whose download steps resolve to the same     *)
(* destination path, each running download_sermon_audio from its           *)
(* existence test on. Both use dest_path + ".part" as temporary path.      *)
(***************************************************************************)
Threads == {1, 2}

\* mutant: the test never finds the file
PathExists_Never(f) == FALSE

\* os.path.exists(dest_path)
PathExists(f) == Exists(f)

\* the larger of two lengths
Longer(a, b) == IF a >= b THEN a ELSE b

RaceInit ==
    /\ RefreshIdle
    /\ TitleIdle
    /\ EnumIdle
    /\ JobIdle
    /\ AuthIdle
    /\ DiscIdle
    /\ NameIdle
    /\ MetaIdle
    /\ SeriesIdle
    /\ KeyIdle
    /\ tpc = [t \in Threads |-> "exists"]
    /\ tTier = [t \in Threads |-> 0]
    /\ tGot = [t \in Threads |-> 0]
    /\ tSaw = [t \in Threads |-> "none"]
    /\ tHandle = [t \in Threads |-> "none"]
    /\ tReqs = [t \in Threads |-> 0]
    /\ destFile \in {Absent, File("low", NChunks)}
    /\ partFile = Absent

\* if os.path.exists(dest_path): return dest_path
TestExists(t) ==
    /\ UNCHANGED <<coreVars, metaVars, seriesVars, keyVars,
                   refreshVars, titleVars>>
    /\ tpc[t] = "exists"
    /\ tSaw' = [tSaw EXCEPT ![t] = IF Exists(destFile) THEN "present"
                                   ELSE "absent"]
    /\ IF PathExists(destFile)
       THEN /\ tpc' = [tpc EXCEPT ![t] = "returned"]
            /\ UNCHANGED tTier
       ELSE /\ tpc' = [tpc EXCEPT ![t] = "request"]
            /\ tTier' = [tTier EXCEPT ![t] = 1]
    /\ UNCHANGED <<tGot, tHandle, tReqs, destFile, partFile>>

\* download_file up to open(tmp_path, "wb"): the media request of the
\* thread's tier; a 200 creates the temporary file or truncates the one
\* that is there; another status makes the step try the next tier; a
\* transport error leaves the step
TRequest(t, answer) ==
    /\ UNCHANGED <<coreVars, metaVars, seriesVars, keyVars,
                   refreshVars, titleVars>>
    /\ tpc[t] = "request"
    /\ tReqs' = [tReqs EXCEPT ![t] = @ + 1]
    /\ IF answer = "200"
       THEN /\ partFile' = File(Ladder("bulk")[tTier[t]], 0)
            /\ tHandle' = [tHandle EXCEPT ![t] = "part"]
            /\ tGot' = [tGot EXCEPT ![t] = 0]
            /\ tpc' = [tpc EXCEPT ![t] = "stream"]
            /\ UNCHANGED tTier
       ELSE /\ IF answer = "404" /\ tTier[t] < Len(Ladder("bulk"))
               THEN /\ tTier' = [tTier EXCEPT ![t] = @ + 1]
                    /\ tpc' = [tpc EXCEPT ![t] = "request"]
               ELSE /\ tpc' = [tpc EXCEPT ![t] = "failed"]
                    /\ UNCHANGED tTier
            /\ UNCHANGED <<partFile, tHandle, tGot>>
    /\ UNCHANGED <<tSaw, destFile>>

\* f.write(chunk): the thread writes at its own offset into the file it has
\* open, wherever that file is linked by now
TWrite(t) ==
    /\ UNCHANGED <<coreVars, metaVars, seriesVars, keyVars,
                   refreshVars, titleVars>>
    /\ tpc[t] = "stream"
    /\ tGot[t] < NChunks
    /\ tGot' = [tGot EXCEPT ![t] = @ + 1]
    /\ LET tier == Ladder("bulk")[tTier[t]]
       IN  /\ partFile' = IF tHandle[t] = "part"
                          THEN File(tier, Longer(partFile.chunks, tGot'[t]))
                          ELSE partFile
           /\ destFile' = IF tHandle[t] = "dest"
                          THEN File(tier, Longer(destFile.chunks, tGot'[t]))
                          ELSE destFile
    /\ UNCHANGED <<tpc, tTier, tSaw, tHandle, tReqs>>

\* os.replace(tmp_path, dest_path): the file at the temporary path becomes
\* the destination, with every handle that is open on it; FileNotFoundError
\* when the other thread has already moved it
TReplace(t) ==
    /\ UNCHANGED <<coreVars, metaVars, seriesVars, keyVars,
                   refreshVars, titleVars>>
    /\ tpc[t] = "stream"
    /\ tGot[t] = NChunks
    /\ IF Exists(partFile)
       THEN /\ destFile' = partFile
            /\ partFile' = Absent
            /\ tHandle' = [u \in Threads |->
                              CASE tHandle[u] = "part" -> "dest"
                                [] tHandle[u] = "dest" -> "unlinked"
                                [] OTHER -> tHandle[u]]
            /\ tpc' = [tpc EXCEPT ![t] = "returned"]
       ELSE /\ tpc' = [tpc EXCEPT ![t] = "failed"]
            /\ UNCHANGED <<destFile, partFile, tHandle>>
    /\ UNCHANGED <<tTier, tGot, tSaw, tReqs>>

RaceNext ==
    \E t \in Threads :
        \/ TestExists(t)
        \/ \E answer \in {"200", "404", "error"} : TRequest(t, answer)
        \/ TWrite(t)
        \/ TReplace(t)

SpecRace == RaceInit /\ [][RaceNext]_vars

(***************************************************************************)
(* C21: the existence test is all that stands between a job and its media  *)
(* request, and each job makes it on its own: a job that saw the file      *)
(* returns without a request, a job issues requests only after it saw the  *)
(* path free, and nothing keeps two jobs from both seeing it free -- there *)
(* is an interleaving in which both pass the test and both issue a media   *)
(* request for the same destination (C21_Witness).                         *)
(***************************************************************************)
C21_TestIsPerThread ==
    \A t \in Threads :
        /\ tSaw[t] = "present" =>
               (tpc[t] = "returned" /\ tReqs[t] = 0 /\ Exists(destFile))
        /\ tReqs[t] > 0 => tSaw[t] = "absent"
        /\ tReqs[t] <= Len(Ladder("bulk"))
        /\ tpc[t] \in {"request", "stream"} => tSaw[t] = "absent"

\* both jobs passed the existence test and both have a media request
\* answered and a body in transfer to the same temporary path
C21_Witness ==
    \A t \in Threads :
        /\ tSaw[t] = "absent"
        /\ tReqs[t] > 0
        /\ tpc[t] = "stream"

(***************************************************************************)
(* C37: when two jobs write the same destination through the same          *)
(* temporary path, the destination never holds a partial body and neither  *)
(* job fails at the publish step.                                          *)
(***************************************************************************)
C37_AtomicUnderConcurrency ==
    /\ (\A t \in Threads : tpc[t] \in {"returned", "failed"}) =>
           (Exists(destFile) => Complete(destFile))
    /\ \A t \in Threads : ~(tpc[t] = "failed" /\ tGot[t] = NChunks)

(***************************************************************************)
(* Two job threads of the GUI that enter ensure_api_key of the same        *)
(* module: the session and its headers are module globals shared by every  *)
(* thread, and ensure_api_key takes no lock.                               *)
(***************************************************************************)
\* what sa_auth.get_api_key gives a caller: a token, or "none" when it
\* raised
KeyOutcomes == WellFormedTokens \cup {"none"}

KeyInit ==
    /\ RefreshIdle
    /\ TitleIdle
    /\ EnumIdle
    /\ JobIdle
    /\ AuthIdle
    /\ DiscIdle
    /\ NameIdle
    /\ MetaIdle
    /\ SeriesIdle
    /\ RaceIdle
    /\ kpc = [t \in Threads |-> "test"]
    /\ kval = [t \in Threads |-> "none"]
    /\ kUsed = [t \in Threads |-> "none"]
    /\ header = "unset"
    /\ headerLog = <<>>

\* if "X-API-Key" in session.headers: return
KTest(t) ==
    /\ UNCHANGED <<coreVars, metaVars, seriesVars, raceVars,
                   refreshVars, titleVars>>
    /\ kpc[t] = "test"
    /\ kpc' = [kpc EXCEPT ![t] = IF header # "unset" THEN "done"
                                 ELSE "get_key"]
    /\ UNCHANGED <<kval, kUsed, header, headerLog>>

\* key = sa_auth.get_api_key() with its exception caught, and the hardcoded
\* key when there is none
KGetKey(t, outcome) ==
    /\ UNCHANGED <<coreVars, metaVars, seriesVars, raceVars,
                   refreshVars, titleVars>>
    /\ kpc[t] = "get_key"
    /\ kval' = [kval EXCEPT ![t] = KeyOrFallback(outcome)]
    /\ kpc' = [kpc EXCEPT ![t] = "set"]
    /\ UNCHANGED <<kUsed, header, headerLog>>

\* session.headers["X-API-Key"] = key
KSet(t) ==
    /\ UNCHANGED <<coreVars, metaVars, seriesVars, raceVars,
                   refreshVars, titleVars>>
    /\ kpc[t] = "set"
    /\ header' = kval[t]
    /\ headerLog' = Append(headerLog, kval[t])
    /\ kpc' = [kpc EXCEPT ![t] = "done"]
    /\ UNCHANGED <<kval, kUsed>>

\* the first request of the thread's job after ensure_api_key returned: it
\* is sent with the headers the session has at that moment
KProbe(t) ==
    /\ UNCHANGED <<coreVars, metaVars, seriesVars, raceVars,
                   refreshVars, titleVars>>
    /\ kpc[t] = "done"
    /\ kUsed' = [kUsed EXCEPT ![t] = header]
    /\ kpc' = [kpc EXCEPT ![t] = "probed"]
    /\ UNCHANGED <<kval, header, headerLog>>

KeyNext ==
    \E t \in Threads :
        \/ KTest(t)
        \/ \E outcome \in KeyOutcomes : KGetKey(t, outcome)
        \/ KSet(t)
        \/ KProbe(t)

SpecKey == KeyInit /\ [][KeyNext]_vars

(***************************************************************************)
(* C22: the X-API-Key header of a module's shared session is written at    *)
(* most once and keeps the value of its first write; no two callers of     *)
(* ensure_api_key both write it.                                           *)
(***************************************************************************)
C22_WrittenOnce ==
    /\ Len(headerLog) <= 1
    /\ headerLog # <<>> => header = headerLog[1]
    /\ \A t \in Threads : kUsed[t] # "none" => kUsed[t] = headerLog[1]

(***************************************************************************)
(* One module's session in the GUI process across a forced refresh: the    *)
(* requests of sa_speaker, sa_broadcaster and sa_search go through the     *)
(* module's own session, whose X-API-Key is set by ensure_api_key.         *)
(***************************************************************************)
\* the module sends at most MaxSent requests
MaxSent == 2

RefreshInit ==
    /\ EnumIdle
    /\ JobIdle
    /\ AuthIdle
    /\ DiscIdle
    /\ NameIdle
    /\ MetaIdle
    /\ SeriesIdle
    /\ RaceIdle
    /\ KeyIdle
    /\ TitleIdle
    /\ sessHeader = [m \in Modules |-> "unset"]
    /\ authTxt \in {"missing"} \cup WellFormedTokens
    /\ refreshedKey = "none"
    /\ sentKey = "none"
    /\ requestsSent = [m \in Modules |-> 0]

\* an enumeration or search request of module m: ensure_api_key() and then
\* session.get.
\* outcome is what get_api_key() gives when it is called: the cached token,
\* a fetched one (which it has written to auth.txt), or "none" when it
\* raised
SendRequest(m, outcome) ==
    /\ UNCHANGED <<coreVars, metaVars, seriesVars, raceVars, keyVars,
                   titleVars>>
    /\ requestsSent[m] < MaxSent
    /\ IF sessHeader[m] # "unset"
       THEN \* if "X-API-Key" in session.headers: return
            /\ outcome = "none"
            /\ UNCHANGED <<sessHeader, authTxt>>
       ELSE \* get_api_key() returns a well-formed cached token as it is
            /\ authTxt \in WellFormedTokens => outcome = authTxt
            /\ sessHeader' = [sessHeader EXCEPT ![m] = KeyOrFallback(outcome)]
            /\ authTxt' = IF outcome = "none" THEN authTxt ELSE outcome
    /\ sentKey' = sessHeader'[m]
    /\ requestsSent' = [requestsSent EXCEPT ![m] = @ + 1]
    /\ UNCHANGED refreshedKey

\* refresh_api_key of the settings dialog: sa_auth.get_api_key(
\* force_refresh=True), which writes the fetched token to auth.txt, or
\* raises (the dialog shows the error); no session is touched
RefreshKey(outcome) ==
    /\ UNCHANGED <<coreVars, metaVars, seriesVars, raceVars, keyVars,
                   titleVars>>
    /\ IF outcome = "none"
       THEN UNCHANGED <<authTxt, refreshedKey, sentKey>>
       ELSE /\ authTxt' = outcome
            /\ refreshedKey' = outcome
            /\ sentKey' = "none"
    /\ UNCHANGED <<sessHeader, requestsSent>>

RefreshNext ==
    \/ \E m \in Modules, outcome \in KeyOutcomes : SendRequest(m, outcome)
    \/ \E outcome \in KeyOutcomes : RefreshKey(outcome)

SpecRefresh == RefreshInit /\ [][RefreshNext]_vars

(***************************************************************************)
(* C38: after a forced refresh has completed successfully, every request   *)
(* the module sends later carries the refreshed token.                     *)
(***************************************************************************)
C38_RequestsCarryRefreshedKey ==
    (refreshedKey # "none" /\ sentKey # "none") => sentKey = refreshedKey

(***************************************************************************)
(* A bulk job over items that have titles: the destination of an item is   *)
(* <root>/<owner>/[<series>/]slugify(title).mp3; the items of the job are  *)
(* taken here to share the owner and series folder.                        *)
(***************************************************************************)
\* a title has 1..MaxJobTitleLen characters
MaxJobTitleLen == 2

JobTitles == SeqsUpTo({"a", "b", "?"}, MaxJobTitleLen) \ {<<>>}

\* filename = slugify(title) + ".mp3"
DestOf(title) == slugify(title) \o Mp3Ext

TitleInit ==
    /\ EnumIdle
    /\ JobIdle
    /\ AuthIdle
    /\ DiscIdle
    /\ NameIdle
    /\ MetaIdle
    /\ SeriesIdle
    /\ RaceIdle
    /\ KeyIdle
    /\ RefreshIdle
    /\ titles \in [Items -> JobTitles]
    /\ published = {}
    /\ tIdx = 1
    /\ skippedIds = {}
    /\ pass = 1

\* download_sermon_audio for the current item, and the loop's step to the
\* next one: skipped when a file is at the destination, else downloaded
\* (ok) or failed
ProcessTitled(ok) ==
    /\ UNCHANGED <<coreVars, metaVars, seriesVars, raceVars, keyVars,
                   refreshVars>>
    /\ tIdx \in Items
    /\ LET dest_path == DestOf(titles[tIdx])
       IN  IF \E f \in published : f[1] = dest_path
           THEN /\ ok
                /\ skippedIds' = skippedIds \cup {tIdx}
                /\ UNCHANGED published
           ELSE /\ published' = IF ok
                                THEN published \cup {<<dest_path, tIdx>>}
                                ELSE published
                /\ UNCHANGED skippedIds
    /\ tIdx' = tIdx + 1
    /\ UNCHANGED <<titles, pass>>

\* the same job is run again on the same output root
RunAgain ==
    /\ UNCHANGED <<coreVars, metaVars, seriesVars, raceVars, keyVars,
                   refreshVars>>
    /\ tIdx = NItems + 1
    /\ pass = 1
    /\ pass' = 2
    /\ tIdx' = 1
    /\ skippedIds' = {}
    /\ UNCHANGED <<titles, published>>

TitleNext ==
    \/ \E ok \in BOOLEAN : ProcessTitled(ok)
    \/ RunAgain

SpecTitles == TitleInit /\ [][TitleNext]_vars

(***************************************************************************)
(* C36: in a bulk job an item is skipped as already existing only if the   *)
(* file at its destination was published for that same item: no two items  *)
(* of a job share a destination so that the later one is skipped without   *)
(* being downloaded.                                                       *)
(***************************************************************************)
C36_SkippedOnlyIfOwnFile ==
    \A i \in skippedIds : <<DestOf(titles[i]), i>> \in published

====
